---- MODULE Spec2Model ----
(***************************************************************************)
(* Document change workflow engine of RAG-AI (src/src/editing):            *)
(*   change_model.py     change records, locators, statuses                *)
(*   workflow_model.py   ChangeWorkflow                                    *)
(*   word_editor.py      WordEditor, the document mutation primitives      *)
(*   workflow_applier.py WorkflowApplier.apply_workflow                    *)
(*                                                                         *)
(* Representation.  A Python str is a sequence of tokens (<<"a", "b">>),   *)
(* so that concatenation, substring and strip are computed.  A value of a  *)
(* dynamically typed field is a record tagged by `kind`.  A style name is  *)
(* such a str, the blank included (<<"Heading", " ", "1">>).  The         *)
(* document is the python-docx Document as WordEditor reads it:            *)
(* document.paragraphs (the body's paragraphs, in order) and               *)
(* document.tables; a paragraph is its style name and its runs, a run is   *)
(* its text and the character formatting python-docx reports for it.      *)
(***************************************************************************)
EXTENDS Integers, Sequences, FiniteSets, TLC

VARIABLES
    document,     \* WordEditor.document: [paragraphs, tables]
    workflow,     \* ChangeWorkflow: [proposed_changes, status, created_at, updated_at]
    result,       \* the last operation: [op, ret, raised], raised the exception that escaped it
    applied_log,  \* change ids in the order the last operation processed them in its loops
    pre,          \* document and workflow as they stood when the last apply_workflow call started
    calls,        \* number of apply_workflow calls made so far
    clock,        \* the UTC time, in ticks
    modified_document,  \* ChangeDetector.modified_editor.document
    detected      \* the list detect_paragraph_text_changes returned

vars == <<document, workflow, result, applied_log, pre, calls, clock,
          modified_document, detected>>

----------------------------------------------------------------------------
(* Python values *)

None == [kind |-> "None"]
PyInt(n) == [kind |-> "int", v |-> n]
PyStr(s) == [kind |-> "str", v |-> s]
PyList(l) == [kind |-> "list", v |-> l]

IsNone(x) == x.kind = "None"

\* str(int) for the integers that occur as payloads
DigitWord(n) ==
    CASE n = 0 -> "0" [] n = 1 -> "1" [] n = 2 -> "2" [] n = 3 -> "3"
      [] n = 4 -> "4" [] n = 5 -> "5" [] n = 6 -> "6" [] n = 7 -> "7"
      [] n = 8 -> "8" [] OTHER -> "9"

RECURSIVE JoinRepr(_)
JoinRepr(l) ==
    IF l = <<>> THEN <<>>
    ELSE <<"'">> \o Head(l) \o <<"'">>
         \o (IF Len(l) > 1 THEN <<",", " ">> ELSE <<>>) \o JoinRepr(Tail(l))

\* str(x): the identity on a str, the decimal digits of an int, the repr of a list
str(x) ==
    CASE x.kind = "str" -> x.v
      [] x.kind = "int" -> (IF x.v < 0 THEN <<"-", DigitWord(-x.v)>> ELSE <<DigitWord(x.v)>>)
      [] x.kind = "list" -> <<"[">> \o JoinRepr(x.v) \o <<"]">>
      [] OTHER -> <<"None">>

\* s.startswith(prefix)
startswith(s, prefix) ==
    /\ Len(prefix) <= Len(s)
    /\ SubSeq(s, 1, Len(prefix)) = prefix

\* needle in haystack
contains(haystack, needle) ==
    \E i \in 0..(Len(haystack) - Len(needle)) :
        SubSeq(haystack, i + 1, i + Len(needle)) = needle

Whitespace == {" "}

RECURSIVE lstrip(_)
lstrip(s) == IF s # <<>> /\ Head(s) \in Whitespace THEN lstrip(Tail(s)) ELSE s

RECURSIVE rstrip(_)
rstrip(s) ==
    IF s # <<>> /\ s[Len(s)] \in Whitespace THEN rstrip(SubSeq(s, 1, Len(s) - 1)) ELSE s

\* s.strip()
strip(s) == rstrip(lstrip(s))

----------------------------------------------------------------------------
(* change_model.py *)

ChangeType ==
    {"text_update", "format_change", "paragraph_insert", "paragraph_delete",
     "section_replace", "table_cell_update", "table_row_add"}

ChangeStatus == {"proposed", "accepted", "rejected", "applied", "failed"}

LocationParagraph(paragraph_index, run_index) ==
    [kind |-> "LocationParagraph", paragraph_index |-> paragraph_index,
     run_index |-> run_index]

LocationTable(table_index, row_index, column_index) ==
    [kind |-> "LocationTable", table_index |-> table_index,
     row_index |-> row_index, column_index |-> column_index]

LocationSection(heading_text, heading_style_name) ==
    [kind |-> "LocationSection", heading_text |-> heading_text,
     heading_style_name |-> heading_style_name]

\* isinstance(location, <class>)
isinstance(location, class) == location.kind = class

DocumentChange(change_id, change_type, location, new_value) ==
    [change_id |-> change_id, change_type |-> change_type, location |-> location,
     old_value |-> None, new_value |-> new_value, status |-> "proposed"]

----------------------------------------------------------------------------
(* python-docx character formatting of a run, as WordEditor reads it *)

TriState == {"None", "True", "False"}

DefaultCharStyle == "Default Paragraph Font"

\* the formatting of a run that python-docx has just created
PlainFormat ==
    [bold |-> "None", italic |-> "None", underline |-> "None", name |-> "None",
     size |-> "None", color_rgb |-> "None", highlight_color |-> "None",
     strike |-> "None", vertAlign |-> "None", all_caps |-> "None",
     small_caps |-> "None", style |-> DefaultCharStyle]

\* Font.subscript / Font.superscript are two readings of the one w:vertAlign element
subscript(f) ==
    IF f.vertAlign = "None" THEN "None"
    ELSE IF f.vertAlign = "subscript" THEN "True" ELSE "False"

superscript(f) ==
    IF f.vertAlign = "None" THEN "None"
    ELSE IF f.vertAlign = "superscript" THEN "True" ELSE "False"

set_subscript(f, value) ==
    IF value = "None" THEN [f EXCEPT !.vertAlign = "None"]
    ELSE IF value = "True" THEN [f EXCEPT !.vertAlign = "subscript"]
    ELSE IF f.vertAlign = "subscript" THEN [f EXCEPT !.vertAlign = "None"]
    ELSE f

set_superscript(f, value) ==
    IF value = "None" THEN [f EXCEPT !.vertAlign = "None"]
    ELSE IF value = "True" THEN [f EXCEPT !.vertAlign = "superscript"]
    ELSE IF f.vertAlign = "superscript" THEN [f EXCEPT !.vertAlign = "None"]
    ELSE f

\* truth value of a cached attribute in `if font_to_apply.get(...)`; the font
\* names, sizes and colours of the drawn runs are None or a non-empty, non-zero value
Truthy(v) == v # "None"

Run(text, format) == [text |-> text, format |-> format]

\* Paragraph.add_run(text) on the paragraph's run list
add_run(runs, text) == Append(runs, Run(text, PlainFormat))

Paragraph(style, runs) == [style |-> style, runs |-> runs]

NormalStyle == <<"Normal">>

\* the paragraph python-docx creates for add_paragraph(text) and
\* insert_paragraph_before(text): a run is added only for a non-empty text
NewParagraph(text) ==
    Paragraph(NormalStyle, IF text # <<>> THEN add_run(<<>>, text) ELSE <<>>)

RECURSIVE ConcatRuns(_)
ConcatRuns(runs) ==
    IF runs = <<>> THEN <<>> ELSE Head(runs).text \o ConcatRuns(Tail(runs))

\* Paragraph.text
ParagraphText(p) == ConcatRuns(p.runs)

\* sequence helpers: 0-based list operations
InsertAt(s, i, x) == SubSeq(s, 1, i) \o <<x>> \o SubSeq(s, i + 1, Len(s))
RemoveAt(s, i) == SubSeq(s, 1, i) \o SubSeq(s, i + 2, Len(s))

----------------------------------------------------------------------------
(* style names *)

Digits == {"0", "1", "2", "3", "4", "5", "6", "7", "8", "9"}

DigitValue(d) ==
    CASE d = "0" -> 0 [] d = "1" -> 1 [] d = "2" -> 2 [] d = "3" -> 3
      [] d = "4" -> 4 [] d = "5" -> 5 [] d = "6" -> 6 [] d = "7" -> 7
      [] d = "8" -> 8 [] OTHER -> 9

\* s.split(" ")[-1]
RECURSIVE LastWord(_)
LastWord(s) ==
    IF s = <<>> THEN <<>>
    ELSE IF s[Len(s)] = " " THEN <<>>
    ELSE Append(LastWord(SubSeq(s, 1, Len(s) - 1)), s[Len(s)])

isdigit(w) == w # <<>> /\ \A i \in 1..Len(w) : w[i] \in Digits

RECURSIVE int(_)
int(w) == IF w = <<>> THEN 0 ELSE 10 * int(SubSeq(w, 1, Len(w) - 1)) + DigitValue(w[Len(w)])

\* the level the editor derives from a style name, -1 when it derives none
StyleLevel(style_name) ==
    IF isdigit(LastWord(style_name)) THEN int(LastWord(style_name)) ELSE -1

HeadingWord == <<"Heading">>

\* para.style.name.startswith("Heading")
IsHeadingStyle(style_name) == startswith(style_name, HeadingWord)

\* truth value of an Optional[str]
TruthyStr(x) == x.kind = "str" /\ x.v # <<>>

----------------------------------------------------------------------------
(* word_editor.py *)

NumParagraphs(doc) == Len(doc.paragraphs)

\* the paragraph test of the first loop of replace_text_after_heading
IsHeadingMatch(para, heading_text, heading_style_name) ==
    IF TruthyStr(heading_style_name)
    THEN /\ startswith(para.style, heading_style_name.v)
         /\ contains(ParagraphText(para), heading_text)
    ELSE heading_text = strip(ParagraphText(para))

\* 0-based index of the first matching paragraph, -1 when there is none
FindHeading(doc, heading_text, heading_style_name) ==
    LET hits == {i \in 1..NumParagraphs(doc) :
                    IsHeadingMatch(doc.paragraphs[i], heading_text, heading_style_name)}
    IN IF hits = {} THEN -1
       ELSE (CHOOSE i \in hits : \A j \in hits : i <= j) - 1

\* variant: a heading ends the section only when it is not deeper than the
\* matched heading, compared by style level even when no level was derived
EndsSection_AlwaysByLevel(para, heading_style_name, heading_level) ==
    /\ IsHeadingStyle(para.style)
    /\ StyleLevel(para.style) <= (IF heading_level = -1 THEN 1 ELSE heading_level)

\* variant: only a heading of a strictly higher rank ends the section
EndsSection_Strict(para, heading_style_name, heading_level) ==
    /\ IsHeadingStyle(para.style)
    /\ IF TruthyStr(heading_style_name) /\ heading_level # -1
          /\ StyleLevel(para.style) # -1
       THEN StyleLevel(para.style) < heading_level
       ELSE TRUE

\* does the paragraph end the section that a heading of heading_level opened
EndsSection(para, heading_style_name, heading_level) ==
    /\ IsHeadingStyle(para.style)
    /\ IF TruthyStr(heading_style_name) /\ heading_level # -1
          /\ StyleLevel(para.style) # -1
       THEN StyleLevel(para.style) <= heading_level
       ELSE TRUE

\* 0-based index of the paragraph that ends the section, len(paragraphs) when none does
FindSectionEnd(doc, start_index, heading_style_name, heading_level) ==
    LET ends == {i \in (start_index + 2)..NumParagraphs(doc) :
                    EndsSection(doc.paragraphs[i], heading_style_name, heading_level)}
    IN IF ends = {} THEN NumParagraphs(doc)
       ELSE (CHOOSE i \in ends : \A j \in ends : i <= j) - 1

RECURSIVE NewParagraphs(_)
NewParagraphs(texts) ==
    IF texts = <<>> THEN <<>>
    ELSE <<NewParagraph(Head(texts))>> \o NewParagraphs(Tail(texts))

\* WordEditor.replace_text_after_heading: [ok, document]
replace_text_after_heading(doc, heading_text, new_content_paragraphs, heading_style_name) ==
    LET start_index == FindHeading(doc, heading_text, heading_style_name)
    IN IF start_index = -1 THEN [ok |-> FALSE, document |-> doc]
       ELSE
         LET heading_level ==
                 IF TruthyStr(heading_style_name)
                 THEN StyleLevel(doc.paragraphs[start_index + 1].style)
                 ELSE -1
             end_index == FindSectionEnd(doc, start_index, heading_style_name, heading_level)
             \* paragraphs end_index-1 down to start_index+1 are removed
             kept == SubSeq(doc.paragraphs, 1, start_index + 1)
                     \o SubSeq(doc.paragraphs, end_index + 1, NumParagraphs(doc))
             inserted ==
                 IF new_content_paragraphs = <<>> THEN kept
                 ELSE IF start_index + 1 < Len(kept)
                 THEN \* each new paragraph goes before the anchor at start_index + 1
                      SubSeq(kept, 1, start_index + 1)
                      \o NewParagraphs(new_content_paragraphs)
                      \o SubSeq(kept, start_index + 2, Len(kept))
                 ELSE \* each new paragraph is added at the end of the body
                      kept \o NewParagraphs(new_content_paragraphs)
         IN [ok |-> TRUE, document |-> [doc EXCEPT !.paragraphs = inserted]]

\* variant: the new paragraph is put before the paragraph at paragraph_index
insert_paragraph_after_Before(doc, paragraph_index, text) ==
    IF ~(0 <= paragraph_index /\ paragraph_index < NumParagraphs(doc)) THEN doc
    ELSE [doc EXCEPT !.paragraphs = InsertAt(@, paragraph_index, NewParagraph(text))]

\* WordEditor.insert_paragraph_after: the document afterwards
insert_paragraph_after(doc, paragraph_index, text) ==
    IF ~(0 <= paragraph_index /\ paragraph_index < NumParagraphs(doc)) THEN doc
    ELSE IF paragraph_index = NumParagraphs(doc) - 1
    THEN [doc EXCEPT !.paragraphs = Append(@, NewParagraph(text))]
    ELSE [doc EXCEPT !.paragraphs = InsertAt(@, paragraph_index + 1, NewParagraph(text))]

\* variant: a negative index counts from the end, as Python list indexing does
delete_paragraph_NegativeFromEnd(doc, paragraph_index) ==
    LET index == IF paragraph_index < 0 THEN NumParagraphs(doc) + paragraph_index
                 ELSE paragraph_index
    IN IF ~(0 <= index /\ index < NumParagraphs(doc))
       THEN [ok |-> FALSE, document |-> doc]
       ELSE [ok |-> TRUE, document |-> [doc EXCEPT !.paragraphs = RemoveAt(@, index)]]

\* WordEditor.delete_paragraph: [ok, document]
delete_paragraph(doc, paragraph_index) ==
    IF ~(0 <= paragraph_index /\ paragraph_index < NumParagraphs(doc))
    THEN [ok |-> FALSE, document |-> doc]
    ELSE [ok |-> TRUE,
          document |-> [doc EXCEPT !.paragraphs = RemoveAt(@, paragraph_index)]]

\* WordEditor.update_table_cell_text: [ok, document]; a table is its rows of cell texts
update_table_cell_text(doc, table_index, row, col, text) ==
    IF ~(0 <= table_index /\ table_index < Len(doc.tables))
    THEN [ok |-> FALSE, document |-> doc]
    ELSE LET table == doc.tables[table_index + 1]
         IN IF ~(0 <= row /\ row < Len(table)) THEN [ok |-> FALSE, document |-> doc]
            ELSE IF ~(0 <= col /\ col < Len(table[1])) THEN [ok |-> FALSE, document |-> doc]
            ELSE [ok |-> TRUE,
                  document |-> [doc EXCEPT !.tables[table_index + 1][row + 1][col + 1] = text]]

\* the formatting update_paragraph_text gives the new run, from the first original run
CopyFirstRunFormat(first) ==
    LET f1 == [PlainFormat EXCEPT
                  !.name = IF Truthy(first.name) THEN first.name ELSE @,
                  !.size = IF Truthy(first.size) THEN first.size ELSE @,
                  !.color_rgb = IF Truthy(first.color_rgb) THEN first.color_rgb ELSE @,
                  !.highlight_color =
                      IF first.highlight_color # "None" THEN first.highlight_color ELSE @,
                  !.strike = IF first.strike # "None" THEN first.strike ELSE @]
        f2 == IF subscript(first) # "None" THEN set_subscript(f1, subscript(first)) ELSE f1
        f3 == IF superscript(first) # "None" THEN set_superscript(f2, superscript(first)) ELSE f2
        f4 == [f3 EXCEPT
                  !.all_caps = IF first.all_caps # "None" THEN first.all_caps ELSE @,
                  !.small_caps = IF first.small_caps # "None" THEN first.small_caps ELSE @,
                  !.style = first.style]
    IN [f4 EXCEPT
           !.bold = IF first.bold \in {"True", "False"} THEN first.bold ELSE @,
           !.italic = IF first.italic \in {"True", "False"} THEN first.italic ELSE @,
           !.underline = IF first.underline \in {"True", "False"} THEN first.underline ELSE @]

\* WordEditor.update_paragraph_text with preserve_style=True: the document afterwards
update_paragraph_text(doc, paragraph_index, new_text) ==
    IF ~(0 <= paragraph_index /\ paragraph_index < NumParagraphs(doc)) THEN doc
    ELSE LET original_runs == doc.paragraphs[paragraph_index + 1].runs
             new_run == Run(new_text,
                            IF original_runs # <<>>
                            THEN CopyFirstRunFormat(Head(original_runs).format)
                            ELSE PlainFormat)
         IN [doc EXCEPT !.paragraphs[paragraph_index + 1].runs = <<new_run>>]

\* the assignments by which _update_run_text puts the cached formatting back
ReapplyFormat(format, original) ==
    LET f1 == [format EXCEPT
                  !.bold = original.bold, !.italic = original.italic,
                  !.underline = original.underline, !.name = original.name,
                  !.size = IF original.size # "None" THEN original.size ELSE @,
                  !.color_rgb = IF original.color_rgb # "None" THEN original.color_rgb ELSE @,
                  !.highlight_color =
                      IF original.highlight_color # "None" THEN original.highlight_color ELSE @,
                  !.strike = IF original.strike # "None" THEN original.strike ELSE @]
        f2 == IF subscript(original) # "None" THEN set_subscript(f1, subscript(original)) ELSE f1
        f3 == IF superscript(original) # "None"
              THEN set_superscript(f2, superscript(original)) ELSE f2
    IN [f3 EXCEPT
           !.all_caps = IF original.all_caps # "None" THEN original.all_caps ELSE @,
           !.small_caps = IF original.small_caps # "None" THEN original.small_caps ELSE @,
           !.style = original.style]

\* variant: the paragraph's runs are replaced by the one updated run
_update_run_text_Wholesale(paragraph, run_index, new_text) ==
    IF ~(0 <= run_index /\ run_index < Len(paragraph.runs)) THEN paragraph
    ELSE LET run == paragraph.runs[run_index + 1]
         IN [paragraph EXCEPT !.runs = <<Run(new_text, run.format)>>]

\* WordEditor._update_run_text: the paragraph afterwards
_update_run_text(paragraph, run_index, new_text) ==
    IF ~(0 <= run_index /\ run_index < Len(paragraph.runs)) THEN paragraph
    ELSE LET run == paragraph.runs[run_index + 1]
             updated == Run(<<>> \o new_text, ReapplyFormat(run.format, run.format))
         IN [paragraph EXCEPT !.runs[run_index + 1] = updated]

----------------------------------------------------------------------------
(* workflow_model.py *)

\* datetime.utcnow()
utcnow == clock

\* ChangeWorkflow(document_id=...): the fields the operations read and write
NewWorkflow ==
    [proposed_changes |-> <<>>, status |-> "active",
     created_at |-> utcnow, updated_at |-> utcnow]

\* variant: the record is put at the head of the list
add_change_Prepend(wf, change) ==
    [wf EXCEPT !.proposed_changes = <<change>> \o @, !.updated_at = utcnow]

\* variant: the record is appended and updated_at is left as it was
add_change_NoBump(wf, change) == [wf EXCEPT !.proposed_changes = Append(@, change)]

\* ChangeWorkflow.add_change
add_change(wf, change) ==
    [wf EXCEPT !.proposed_changes = Append(@, change), !.updated_at = utcnow]

\* variant: the first record is returned, whatever its id
get_change_by_id_AnyId(wf, change_id) == IF wf.proposed_changes = <<>> THEN 0 ELSE 1

\* ChangeWorkflow.get_change_by_id: position of the first record with the id, 0 for None
get_change_by_id(wf, change_id) ==
    LET hits == {i \in 1..Len(wf.proposed_changes) :
                    wf.proposed_changes[i].change_id = change_id}
    IN IF hits = {} THEN 0 ELSE CHOOSE i \in hits : \A j \in hits : i <= j

\* variant: updated_at is written also when no record carries the id
update_change_status_AlwaysBumps(wf, change_id, new_status) ==
    LET i == get_change_by_id(wf, change_id)
    IN IF i # 0
       THEN [ok |-> TRUE,
             workflow |-> [wf EXCEPT !.proposed_changes[i].status = new_status,
                                     !.updated_at = utcnow]]
       ELSE [ok |-> FALSE, workflow |-> [wf EXCEPT !.updated_at = utcnow]]

\* ChangeWorkflow.update_change_status: [ok, workflow]
update_change_status(wf, change_id, new_status) ==
    LET i == get_change_by_id(wf, change_id)
    IN IF i # 0
       THEN [ok |-> TRUE,
             workflow |-> [wf EXCEPT !.proposed_changes[i].status = new_status,
                                     !.updated_at = utcnow]]
       ELSE [ok |-> FALSE, workflow |-> wf]

RECURSIVE FilterStatus(_, _)
FilterStatus(changes, status) ==
    IF changes = <<>> THEN <<>>
    ELSE (IF Head(changes).status = status THEN <<Head(changes)>> ELSE <<>>)
         \o FilterStatus(Tail(changes), status)

\* ChangeWorkflow.get_changes_by_status
get_changes_by_status(wf, status) == FilterStatus(wf.proposed_changes, status)

\* variant: the Applied records are taken along with the Accepted ones
get_accepted_changes_WithApplied(wf) ==
    get_changes_by_status([wf EXCEPT !.proposed_changes =
                              [i \in 1..Len(@) |->
                                  IF @[i].status = "applied"
                                  THEN [@[i] EXCEPT !.status = "accepted"] ELSE @[i]]],
                          "accepted")

\* variant: every record is taken, whatever its status
get_accepted_changes_Unfiltered(wf) == wf.proposed_changes

\* ChangeWorkflow.get_accepted_changes
get_accepted_changes(wf) == get_changes_by_status(wf, "accepted")

\* variant: only Rejected, Applied and Failed count as reviewed
all_changes_reviewed_Terminal(wf) ==
    \A i \in 1..Len(wf.proposed_changes) :
        wf.proposed_changes[i].status \in {"rejected", "applied", "failed"}

\* ChangeWorkflow.all_changes_reviewed
all_changes_reviewed(wf) ==
    \A i \in 1..Len(wf.proposed_changes) :
        wf.proposed_changes[i].status \in {"accepted", "rejected", "applied", "failed"}

----------------------------------------------------------------------------
(* workflow_applier.py: apply_workflow *)

\* the bucket the first loop of apply_workflow appends an accepted change to,
\* "none" when it appends it to no list
BucketOf(change) ==
    IF change.change_type = "text_update"
    THEN IF isinstance(change.location, "LocationParagraph")
         THEN IF ~IsNone(change.location.run_index)
              THEN "text_updates_run" ELSE "text_updates_para"
         ELSE "none"
    ELSE IF change.change_type = "paragraph_insert" THEN "paragraph_inserts"
    ELSE IF change.change_type = "paragraph_delete" THEN "paragraph_deletes"
    ELSE IF change.change_type = "section_replace" THEN "section_replaces"
    ELSE IF change.change_type = "table_cell_update" THEN "table_cell_updates"
    ELSE "none"

\* variant: the list of one bucket, the change added last standing first
RECURSIVE Bucket_LastFirst(_, _)
Bucket_LastFirst(changes, name) ==
    IF changes = <<>> THEN <<>>
    ELSE Bucket_LastFirst(Tail(changes), name)
         \o (IF BucketOf(Head(changes)) = name THEN <<Head(changes)>> ELSE <<>>)

\* the changes of one bucket, in the order of the list
RECURSIVE Bucket(_, _)
Bucket(changes, name) ==
    IF changes = <<>> THEN <<>>
    ELSE (IF BucketOf(Head(changes)) = name THEN <<Head(changes)>> ELSE <<>>)
         \o Bucket(Tail(changes), name)

\* can `lambda c: c.location.paragraph_index` be evaluated on every change of the list
SortKeyDefined(changes) ==
    \A i \in 1..Len(changes) : isinstance(changes[i].location, "LocationParagraph")

\* where list.sort puts c among the already sorted: before the first element it
\* strictly precedes, so that equal keys keep their order (the sort is stable)
RECURSIVE InsertSorted(_, _, _)
InsertSorted(sorted, c, reverse) ==
    IF sorted = <<>> THEN <<c>>
    ELSE LET h == Head(sorted)
             precedes == IF reverse
                         THEN c.location.paragraph_index > h.location.paragraph_index
                         ELSE c.location.paragraph_index < h.location.paragraph_index
         IN IF precedes THEN <<c>> \o sorted
            ELSE <<h>> \o InsertSorted(Tail(sorted), c, reverse)

\* variant: the list is sorted in the order opposite to the one asked for
RECURSIVE SortByParagraphIndex_Opposite(_, _)
SortByParagraphIndex_Opposite(changes, reverse) ==
    IF changes = <<>> THEN <<>>
    ELSE InsertSorted(SortByParagraphIndex_Opposite(SubSeq(changes, 1, Len(changes) - 1),
                                                    reverse),
                      changes[Len(changes)], ~reverse)

\* variant: the list is sorted ascending whatever `reverse` says
RECURSIVE SortByParagraphIndex_Ascending(_, _)
SortByParagraphIndex_Ascending(changes, reverse) ==
    IF changes = <<>> THEN <<>>
    ELSE InsertSorted(SortByParagraphIndex_Ascending(SubSeq(changes, 1, Len(changes) - 1),
                                                     reverse),
                      changes[Len(changes)], FALSE)

\* variant: the list is left in workflow order
SortByParagraphIndex_Unsorted(changes, reverse) == changes

\* changes.sort(key=lambda c: c.location.paragraph_index, reverse=reverse)
RECURSIVE SortByParagraphIndex(_, _)
SortByParagraphIndex(changes, reverse) ==
    IF changes = <<>> THEN <<>>
    ELSE InsertSorted(SortByParagraphIndex(SubSeq(changes, 1, Len(changes) - 1), reverse),
                      changes[Len(changes)], reverse)

\* the state a phase works on: the document, the workflow, the processing order
Mark(st, change, doc, new_status) ==
    [document |-> doc,
     workflow |-> update_change_status(st.workflow, change.change_id, new_status).workflow,
     log |-> Append(st.log, change.change_id)]

\* a loop iteration that calls update_change_status on no path
Skip(st, change) == [st EXCEPT !.log = Append(@, change.change_id)]

\* body of `for change in paragraph_deletes`
ApplyDelete(st, change) ==
    IF isinstance(change.location, "LocationParagraph")
    THEN LET r == delete_paragraph(st.document, change.location.paragraph_index)
         IN Mark(st, change, r.document, IF r.ok THEN "applied" ELSE "failed")
    ELSE Mark(st, change, st.document, "failed")

\* body of `for change in paragraph_inserts`
ApplyInsert(st, change) ==
    IF isinstance(change.location, "LocationParagraph") /\ ~IsNone(change.new_value)
    THEN LET target_index == change.location.paragraph_index
             n == NumParagraphs(st.document)
             text == str(change.new_value)
         IN IF 0 <= target_index /\ target_index <= n
            THEN IF target_index = 0
                 THEN IF n > 0
                      THEN \* paragraphs[0].insert_paragraph_before
                           Mark(st, change,
                                [st.document EXCEPT
                                     !.paragraphs = InsertAt(@, 0, NewParagraph(text))],
                                "applied")
                      ELSE \* document.add_paragraph
                           Mark(st, change,
                                [st.document EXCEPT
                                     !.paragraphs = Append(@, NewParagraph(text))],
                                "applied")
                 ELSE IF 0 < target_index /\ target_index <= n
                 THEN Mark(st, change,
                           insert_paragraph_after(st.document, target_index - 1, text),
                           "applied")
                 ELSE Mark(st, change, st.document, "failed")
            ELSE Mark(st, change, st.document, "failed")
    ELSE Skip(st, change)

\* body of `for change in text_updates_para`
ApplyTextUpdatePara(st, change) ==
    IF isinstance(change.location, "LocationParagraph") /\ ~IsNone(change.new_value)
    THEN Mark(st, change,
              update_paragraph_text(st.document, change.location.paragraph_index,
                                    str(change.new_value)),
              "applied")
    ELSE Mark(st, change, st.document, "failed")

\* body of `for change in text_updates_run`
ApplyTextUpdateRun(st, change) ==
    IF /\ isinstance(change.location, "LocationParagraph")
       /\ ~IsNone(change.new_value)
       /\ ~IsNone(change.location.run_index)
    THEN LET para_index == change.location.paragraph_index
         IN IF 0 <= para_index /\ para_index < NumParagraphs(st.document)
            THEN Mark(st, change,
                      [st.document EXCEPT !.paragraphs[para_index + 1] =
                           _update_run_text(@, change.location.run_index.v,
                                            str(change.new_value))],
                      "applied")
            ELSE Mark(st, change, st.document, "failed")
    ELSE Mark(st, change, st.document, "failed")

\* body of `for change in section_replaces`
ApplySectionReplace(st, change) ==
    IF isinstance(change.location, "LocationSection") /\ change.new_value.kind = "list"
    THEN LET r == replace_text_after_heading(st.document, change.location.heading_text,
                                             change.new_value.v,
                                             change.location.heading_style_name)
         IN Mark(st, change, r.document, IF r.ok THEN "applied" ELSE "failed")
    ELSE Mark(st, change, st.document, "failed")

\* body of `for change in table_cell_updates`
ApplyTableCellUpdate(st, change) ==
    IF isinstance(change.location, "LocationTable") /\ ~IsNone(change.new_value)
    THEN LET r == update_table_cell_text(st.document, change.location.table_index,
                                         change.location.row_index,
                                         change.location.column_index,
                                         str(change.new_value))
         IN Mark(st, change, r.document, IF r.ok THEN "applied" ELSE "failed")
    ELSE Mark(st, change, st.document, "failed")

ApplyOne(st, change, phase) ==
    CASE phase = "paragraph_deletes" -> ApplyDelete(st, change)
      [] phase = "paragraph_inserts" -> ApplyInsert(st, change)
      [] phase = "text_updates_para" -> ApplyTextUpdatePara(st, change)
      [] phase = "text_updates_run" -> ApplyTextUpdateRun(st, change)
      [] phase = "section_replaces" -> ApplySectionReplace(st, change)
      [] OTHER -> ApplyTableCellUpdate(st, change)

\* one `for change in <list>` loop
RECURSIVE ApplyAll(_, _, _)
ApplyAll(st, changes, phase) ==
    IF changes = <<>> THEN st
    ELSE ApplyAll(ApplyOne(st, Head(changes), phase), Tail(changes), phase)

\* variant: the section loop placed before the text update loops
LaterPhases_SectionFirst ==
    <<"section_replaces", "text_updates_para", "text_updates_run", "table_cell_updates">>

\* the loops after the two sorts, in the order of the source
LaterPhases == <<"text_updates_para", "text_updates_run", "section_replaces",
                 "table_cell_updates">>

RECURSIVE ApplyPhases(_, _, _)
ApplyPhases(st, accepted_changes, phases) ==
    IF phases = <<>> THEN st
    ELSE ApplyPhases(ApplyAll(st, Bucket(accepted_changes, Head(phases)), Head(phases)),
                     accepted_changes, Tail(phases))

\* variant: the workflow is completed whatever the statuses of its records
FinishWorkflow_Always(st) ==
    [document |-> st.document, workflow |-> [st.workflow EXCEPT !.status = "completed"],
     log |-> st.log, raised |-> "NameError"]

\* lines 231-234: the completion check, then `self.updated_at = datetime.utcnow()`
\* in a module that imports no datetime
FinishWorkflow(st) ==
    [document |-> st.document,
     workflow |-> IF all_changes_reviewed(st.workflow)
                  THEN [st.workflow EXCEPT !.status = "completed"]
                  ELSE st.workflow,
     log |-> st.log,
     raised |-> "NameError"]

Abort(st, exception) ==
    [document |-> st.document, workflow |-> st.workflow, log |-> st.log,
     raised |-> exception]

\* variant: one loop over the accepted changes in workflow order, each change
\* handled by the body of its loop
RECURSIVE ApplyInWorkflowOrder(_, _)
ApplyInWorkflowOrder(st, changes) ==
    IF changes = <<>> THEN st
    ELSE ApplyInWorkflowOrder(
             IF BucketOf(Head(changes)) = "none" THEN st
             ELSE ApplyOne(st, Head(changes), BucketOf(Head(changes))),
             Tail(changes))

apply_workflow_InWorkflowOrder(doc, wf) ==
    LET accepted_changes == get_accepted_changes(wf)
        s0 == [document |-> doc, workflow |-> wf, log |-> <<>>]
    IN IF ~SortKeyDefined(Bucket(accepted_changes, "paragraph_deletes")
                          \o Bucket(accepted_changes, "paragraph_inserts"))
       THEN Abort(s0, "AttributeError")
       ELSE FinishWorkflow(ApplyInWorkflowOrder(s0, accepted_changes))

\* variant: the text, section and table loops run before the deletes and inserts
apply_workflow_UpdatesFirst(doc, wf) ==
    LET accepted_changes == get_accepted_changes(wf)
        paragraph_deletes == Bucket(accepted_changes, "paragraph_deletes")
        paragraph_inserts == Bucket(accepted_changes, "paragraph_inserts")
        s0 == ApplyPhases([document |-> doc, workflow |-> wf, log |-> <<>>],
                          accepted_changes, LaterPhases)
    IN IF ~SortKeyDefined(paragraph_deletes) THEN Abort(s0, "AttributeError")
       ELSE LET s1 == ApplyAll(s0, SortByParagraphIndex(paragraph_deletes, TRUE),
                               "paragraph_deletes")
            IN IF ~SortKeyDefined(paragraph_inserts) THEN Abort(s1, "AttributeError")
               ELSE FinishWorkflow(ApplyAll(s1, SortByParagraphIndex(paragraph_inserts, FALSE),
                                            "paragraph_inserts"))

\* WorkflowApplier.apply_workflow: [document, workflow, log, raised]
apply_workflow(doc, wf) ==
    LET accepted_changes == get_accepted_changes(wf)
        paragraph_deletes == Bucket(accepted_changes, "paragraph_deletes")
        paragraph_inserts == Bucket(accepted_changes, "paragraph_inserts")
        s0 == [document |-> doc, workflow |-> wf, log |-> <<>>]
    IN IF ~SortKeyDefined(paragraph_deletes) THEN Abort(s0, "AttributeError")
       ELSE LET s1 == ApplyAll(s0, SortByParagraphIndex(paragraph_deletes, TRUE),
                               "paragraph_deletes")
            IN IF ~SortKeyDefined(paragraph_inserts) THEN Abort(s1, "AttributeError")
               ELSE LET s2 == ApplyAll(s1, SortByParagraphIndex(paragraph_inserts, FALSE),
                                       "paragraph_inserts")
                    IN FinishWorkflow(ApplyPhases(s2, accepted_changes, LaterPhases))

----------------------------------------------------------------------------
(* change_detector.py: ChangeDetector.detect_paragraph_text_changes *)

\* the record DocumentChange(...) builds when old_value is given too
DetectedChange(change_type, paragraph_index, old_value, new_value) ==
    [DocumentChange(0, change_type, LocationParagraph(paragraph_index, None), new_value)
        EXCEPT !.old_value = old_value]

\* for i in range(i, common_len): a text_update where the texts differ
RECURSIVE DetectTextUpdates(_, _, _, _)
DetectTextUpdates(original_paras, modified_paras, i, common_len) ==
    IF i >= common_len THEN <<>>
    ELSE LET original_text == ParagraphText(original_paras[i + 1])
             modified_text == ParagraphText(modified_paras[i + 1])
         IN (IF original_text # modified_text
             THEN <<DetectedChange("text_update", i, PyStr(original_text),
                                   PyStr(modified_text))>>
             ELSE <<>>)
            \o DetectTextUpdates(original_paras, modified_paras, i + 1, common_len)

\* for i in range(len_orig, len_mod): a paragraph_insert of the modified text
RECURSIVE DetectInserts(_, _, _)
DetectInserts(modified_paras, i, len_mod) ==
    IF i >= len_mod THEN <<>>
    ELSE <<DetectedChange("paragraph_insert", i, None,
                          PyStr(ParagraphText(modified_paras[i + 1])))>>
         \o DetectInserts(modified_paras, i + 1, len_mod)

\* for i in range(len_mod, len_orig): a paragraph_delete keeping the original text
RECURSIVE DetectDeletes(_, _, _)
DetectDeletes(original_paras, i, len_orig) ==
    IF i >= len_orig THEN <<>>
    ELSE <<DetectedChange("paragraph_delete", i,
                          PyStr(ParagraphText(original_paras[i + 1])), None)>>
         \o DetectDeletes(original_paras, i + 1, len_orig)

\* the default change_id of DocumentChange is a fresh uuid4: the records of
\* one list carry pairwise distinct ids, here their positions
FreshIds(changes) == [k \in 1..Len(changes) |-> [changes[k] EXCEPT !.change_id = k]]

\* variant: the tail of the longer document is compared from the second
\* paragraph past the common length
detect_paragraph_text_changes_SkipsOne(original, modified) ==
    LET original_paras == original.paragraphs
        modified_paras == modified.paragraphs
        len_orig == Len(original_paras)
        len_mod == Len(modified_paras)
        common_len == IF len_orig < len_mod THEN len_orig ELSE len_mod
    IN FreshIds(DetectTextUpdates(original_paras, modified_paras, 0, common_len)
                \o (IF len_mod > len_orig
                    THEN DetectInserts(modified_paras, len_orig + 1, len_mod)
                    ELSE IF len_orig > len_mod
                         THEN DetectDeletes(original_paras, len_mod + 1, len_orig)
                         ELSE <<>>))

\* ChangeDetector.detect_paragraph_text_changes on the two loaded documents
detect_paragraph_text_changes(original, modified) ==
    LET original_paras == original.paragraphs
        modified_paras == modified.paragraphs
        len_orig == Len(original_paras)
        len_mod == Len(modified_paras)
        common_len == IF len_orig < len_mod THEN len_orig ELSE len_mod
    IN FreshIds(DetectTextUpdates(original_paras, modified_paras, 0, common_len)
                \o (IF len_mod > len_orig
                    THEN DetectInserts(modified_paras, len_orig, len_mod)
                    ELSE IF len_orig > len_mod
                         THEN DetectDeletes(original_paras, len_mod, len_orig)
                         ELSE <<>>))

----------------------------------------------------------------------------
(* bounds of the model *)

MaxChanges == 2        \* records in the workflow of Spec
MaxCalls == 2          \* apply_workflow calls in one behaviour

----------------------------------------------------------------------------
(* documents and change records the operations are run on *)

Text(word) == <<word>>

Bold == [PlainFormat EXCEPT !.bold = "True"]

Heading1 == <<"Heading", " ", "1">>
Heading2 == <<"Heading", " ", "2">>

TextParagraph(style, word) == Paragraph(style, <<Run(Text(word), PlainFormat)>>)

\* WordEditor(): a new python-docx document has no paragraph and no table
EmptyDocument == [paragraphs |-> <<>>, tables |-> <<>>]

\* a document like the one of tests/test_workflow.py: runs with formatting, a
\* Heading 1 section holding a Heading 2, a following Heading 1, one table
SampleDocument ==
    [paragraphs |->
        <<Paragraph(NormalStyle, <<Run(Text("p0"), PlainFormat), Run(Text("b"), Bold)>>),
          TextParagraph(Heading1, "A"),
          TextParagraph(NormalStyle, "c1"),
          TextParagraph(Heading2, "B"),
          TextParagraph(Heading1, "C")>>,
     tables |-> << << <<Text("r0c0"), Text("r0c1")>> >> >>]

InitDocuments == {EmptyDocument, SampleDocument}

\* change records as a caller builds them: change type, location, new value
ApplyInputs ==
    {<<"text_update", LocationParagraph(0, None), PyStr(Text("u"))>>,
     <<"text_update", LocationParagraph(7, None), PyStr(Text("u"))>>,
     <<"text_update", LocationParagraph(0, PyInt(1)), PyStr(Text("r"))>>,
     <<"text_update", LocationParagraph(0, PyInt(5)), PyStr(Text("r"))>>,
     <<"text_update", None, PyStr(Text("u"))>>,
     <<"paragraph_insert", LocationParagraph(0, None), PyStr(Text("n"))>>,
     <<"paragraph_insert", LocationParagraph(1, None), None>>,
     <<"paragraph_insert", PyInt(1), PyStr(Text("n"))>>,
     <<"paragraph_delete", LocationParagraph(2, None), None>>,
     <<"paragraph_delete", PyInt(2), None>>,
     <<"section_replace", LocationSection(Text("A"), PyStr(Heading1)), PyList(<<Text("s")>>)>>,
     <<"section_replace", LocationSection(Text("Z"), None), PyList(<<Text("s")>>)>>,
     <<"table_cell_update", LocationTable(0, 0, 1), PyStr(Text("t"))>>,
     <<"section_replace", LocationParagraph(0, None), PyList(<<Text("s")>>)>>,
     <<"table_cell_update", None, PyStr(Text("t"))>>,
     <<"format_change", LocationParagraph(0, None), PyStr(Text("f"))>>,
     <<"table_row_add", LocationTable(0, 0, 0), None>>}

\* the change records the operations of Spec are given
ChangeInputs ==
    {<<"text_update", LocationParagraph(0, None), PyStr(Text("u"))>>,
     <<"paragraph_delete", LocationParagraph(2, None), None>>,
     <<"paragraph_insert", LocationParagraph(1, None), None>>,
     <<"paragraph_delete", PyInt(2), None>>}

NoResult == [op |-> "init", ret |-> "None", raised |-> "none"]

Snapshot(doc, wf) == [document |-> doc, workflow |-> wf]

----------------------------------------------------------------------------
(* the operations *)

Init ==
    /\ clock = 0
    /\ modified_document = EmptyDocument
    /\ detected = <<>>
    /\ document \in InitDocuments
    /\ workflow = NewWorkflow
    /\ result = NoResult
    /\ applied_log = <<>>
    /\ pre = Snapshot(document, workflow)
    /\ calls = 0

\* workflow.add_change(DocumentChange(...)): the record gets a fresh change_id
AddChangeOf(c) ==
    LET wf == add_change(workflow,
                         DocumentChange(Len(workflow.proposed_changes) + 1,
                                        c[1], c[2], c[3]))
    IN /\ Len(workflow.proposed_changes) < MaxChanges
       /\ workflow' = wf
       /\ result' = [op |-> "add_change", ret |-> "None", raised |-> "none"]
       /\ pre' = Snapshot(document, wf)
       /\ applied_log' = <<>>
       /\ UNCHANGED <<document, calls, clock, modified_document, detected>>

AddChange == \E c \in ChangeInputs : AddChangeOf(c)

\* workflow.update_change_status(change_id, new_status)
UpdateChangeStatusOf(change_id, new_status) ==
    LET r == update_change_status(workflow, change_id, new_status)
    IN /\ workflow' = r.workflow
       /\ result' = [op |-> "update_change_status",
                     ret |-> IF r.ok THEN "True" ELSE "False", raised |-> "none"]
       /\ pre' = Snapshot(document, r.workflow)
       /\ applied_log' = <<>>
       /\ UNCHANGED <<document, calls, clock, modified_document, detected>>

\* the ids of the records, and one id that no record carries
UpdateChangeStatus ==
    \E change_id \in 1..(MaxChanges + 1), new_status \in ChangeStatus :
        UpdateChangeStatusOf(change_id, new_status)

\* applier.apply_workflow(workflow)
ApplyWorkflow ==
    /\ calls < MaxCalls
    /\ \E r \in {apply_workflow(document, workflow)} :
          /\ document' = r.document
          /\ workflow' = r.workflow
          /\ result' = [op |-> "apply_workflow", ret |-> "None", raised |-> r.raised]
          /\ applied_log' = r.log
    /\ pre' = Snapshot(document, workflow)
    /\ calls' = calls + 1
    /\ UNCHANGED <<clock, modified_document, detected>>

Next == AddChange \/ UpdateChangeStatus \/ ApplyWorkflow

Spec == Init /\ [][Next]_vars

----------------------------------------------------------------------------
(* vocabulary of the properties *)

AfterApply == result.op = "apply_workflow"

PreChanges == pre.workflow.proposed_changes

\* positions of the records that were Accepted when the call started
AcceptedAtStart == {i \in 1..Len(PreChanges) : PreChanges[i].status = "accepted"}

StatusNow(i) == workflow.proposed_changes[i].status

Settled(i) == StatusNow(i) \in {"applied", "failed"}

HasParagraphLocator(c) == c.location.kind = "LocationParagraph"

\* a ParagraphDelete or ParagraphInsert whose location is no paragraph locator
MalformedStructural(c) ==
    /\ c.change_type \in {"paragraph_delete", "paragraph_insert"}
    /\ ~HasParagraphLocator(c)

\* the phase the specification assigns a change to, 0 when it assigns none
PhaseRank(c) ==
    CASE c.change_type = "paragraph_delete" -> 1
      [] c.change_type = "paragraph_insert" -> 2
      [] c.change_type = "text_update" /\ HasParagraphLocator(c) ->
            (IF c.location.run_index = None THEN 3 ELSE 4)
      [] c.change_type = "section_replace" -> 5
      [] c.change_type = "table_cell_update" -> 6
      [] OTHER -> 0

\* a change with the locator variant and the payload its type calls for
WellFormed(c) ==
    CASE c.change_type \in {"paragraph_delete"} -> HasParagraphLocator(c)
      [] c.change_type \in {"paragraph_insert", "text_update"} ->
            HasParagraphLocator(c) /\ c.new_value # None
      [] c.change_type = "section_replace" ->
            c.location.kind = "LocationSection" /\ c.new_value.kind = "list"
      [] c.change_type = "table_cell_update" ->
            c.location.kind = "LocationTable" /\ c.new_value # None
      [] OTHER -> FALSE

ChangeWithId(change_id) == PreChanges[get_change_by_id(pre.workflow, change_id)]

----------------------------------------------------------------------------
(* C1 - C10 *)

\* C1: when apply_workflow finishes, every record that was Accepted at the start
\* of the call is Applied or Failed, whatever its change type and locator.
C1_EveryAcceptedSettled ==
    AfterApply => \A i \in AcceptedAtStart : Settled(i)

\* C2: a workflow with one accepted ParagraphDelete or ParagraphInsert whose
\* locator is malformed still has every other accepted (well-formed) change
\* processed: each ends Applied or Failed.
C2_BadChangeDoesNotAbort ==
    (AfterApply /\ Cardinality({i \in AcceptedAtStart : MalformedStructural(PreChanges[i])}) = 1)
    => \A i \in AcceptedAtStart : WellFormed(PreChanges[i]) => Settled(i)

\* C4: the changes are processed in the fixed phase order deletes, inserts,
\* paragraph-level text updates, run-level text updates, section replaces, table
\* cell updates, whatever their order in the workflow; unless a sort raised, every
\* accepted change of a phase is processed exactly once.
C4_FixedPhaseOrder ==
    AfterApply =>
        /\ \A i, j \in 1..Len(applied_log) :
              i < j => /\ applied_log[i] # applied_log[j]
                       /\ PhaseRank(ChangeWithId(applied_log[i]))
                            <= PhaseRank(ChangeWithId(applied_log[j]))
        /\ \A i \in 1..Len(applied_log) :
              /\ get_change_by_id(pre.workflow, applied_log[i]) \in AcceptedAtStart
              /\ PhaseRank(ChangeWithId(applied_log[i])) > 0
        /\ result.raised # "AttributeError" =>
              \A k \in AcceptedAtStart :
                  PhaseRank(PreChanges[k]) > 0 =>
                      \E i \in 1..Len(applied_log) : applied_log[i] = PreChanges[k].change_id

\* C4 witness: a change of a later phase was added to the workflow before a change
\* of an earlier phase, and the call processed the earlier phase first.
C4_Witness ==
    /\ AfterApply
    /\ \E i, j \in 1..Len(applied_log) :
          /\ i < j
          /\ applied_log[i] > applied_log[j]
          /\ PhaseRank(ChangeWithId(applied_log[i])) < PhaseRank(ChangeWithId(applied_log[j]))

\* C5: an accepted TextUpdate (the only accepted change of the pass) whose
\* paragraph_index is out of bounds, or whose run_index is out of bounds for the
\* paragraph it targets, is marked Failed and leaves the document unchanged.
C5_OutOfBoundsTextUpdateFails ==
    AfterApply =>
        \A i \in AcceptedAtStart :
            LET c == PreChanges[i]
                n == Len(pre.document.paragraphs)
            IN (/\ AcceptedAtStart = {i}
                /\ c.change_type = "text_update"
                /\ HasParagraphLocator(c)
                /\ c.new_value # None
                /\ \/ ~(0 <= c.location.paragraph_index /\ c.location.paragraph_index < n)
                   \/ /\ c.location.run_index # None
                      /\ ~(0 <= c.location.run_index.v
                           /\ c.location.run_index.v
                                < Len(pre.document.paragraphs[c.location.paragraph_index + 1].runs)))
               => (StatusNow(i) = "failed" /\ document = pre.document)

\* no paragraph of the document holds the heading text
HeadingAbsent(doc, heading_text) ==
    \A k \in 1..Len(doc.paragraphs) : ~contains(ParagraphText(doc.paragraphs[k]), heading_text)

\* C7: an accepted SectionReplace whose heading text does not exist in the document
\* leaves the document unchanged, is marked Failed, and raises nothing to the
\* caller of apply_workflow.
C7_UnknownHeadingFails ==
    AfterApply =>
        \A i \in AcceptedAtStart :
            LET c == PreChanges[i]
            IN (/\ AcceptedAtStart = {i}
                /\ c.change_type = "section_replace"
                /\ WellFormed(c)
                /\ HeadingAbsent(pre.document, c.location.heading_text))
               => (document = pre.document /\ StatusNow(i) = "failed" /\ result.raised = "none")

\* what the code does keep of C7: the document and the Failed status
C7_UnknownHeadingLocalEffect ==
    AfterApply =>
        \A i \in AcceptedAtStart :
            LET c == PreChanges[i]
            IN (/\ AcceptedAtStart = {i}
                /\ c.change_type = "section_replace"
                /\ WellFormed(c)
                /\ HeadingAbsent(pre.document, c.location.heading_text))
               => (document = pre.document /\ StatusNow(i) = "failed")

----------------------------------------------------------------------------
(* specifications that run apply_workflow on a drawn document and workflow *)

MaxParagraphs == 4     \* paragraphs of a drawn plain document
MaxDeletes == 3        \* records of a drawn workflow of deletes
MaxInserts == 2        \* records of a drawn workflow of inserts
MaxApplyChanges == 2   \* records of a drawn workflow of mixed changes

Letters == <<"A", "B", "C", "D", "E", "F", "G">>

\* n paragraphs of pairwise different text
LetterDocument(n) ==
    [paragraphs |-> [i \in 1..n |-> TextParagraph(NormalStyle, Letters[i])],
     tables |-> <<>>]

LetterDocuments == {LetterDocument(n) : n \in 0..MaxParagraphs}

\* the workflows whose records are drawn from shapes: <<type, location, new value, status>>
WorkflowsOf(shapes, max_len) ==
    UNION {{[NewWorkflow EXCEPT !.proposed_changes =
                [i \in 1..n |-> [DocumentChange(i, f[i][1], f[i][2], f[i][3])
                                     EXCEPT !.status = f[i][4]]]] :
              f \in [1..n -> shapes]} : n \in 0..max_len}

InitWith(documents, workflows) ==
    /\ clock = 0
    /\ modified_document = EmptyDocument
    /\ detected = <<>>
    /\ document \in documents
    /\ workflow \in workflows
    /\ result = NoResult
    /\ applied_log = <<>>
    /\ pre = Snapshot(document, workflow)
    /\ calls = 0

\* accepted deletes at every index from below the first paragraph to past the
\* last, deletes still proposed, and a delete with an int locator
DeleteShapes ==
    {<<"paragraph_delete", LocationParagraph(i, None), None, "accepted">> :
        i \in (-1)..MaxParagraphs}
    \cup {<<"paragraph_delete", LocationParagraph(i, None), None, "proposed">> :
             i \in {0, 1}}
    \cup {<<"paragraph_delete", PyInt(1), None, "accepted">>}

InitDeletes == InitWith(LetterDocuments, WorkflowsOf(DeleteShapes, MaxDeletes))

SpecDeletes == InitDeletes /\ [][ApplyWorkflow]_vars

InsertValues == {None, PyStr(<<>>), PyInt(7)}

\* accepted inserts of a text at every index from below 0 to past the length,
\* inserts of each other payload at the first two indices, and an insert still
\* proposed
InsertShapes ==
    {<<"paragraph_insert", LocationParagraph(i, None), PyStr(Text("n")), "accepted">> :
        i \in (-1)..(MaxParagraphs + 1)}
    \cup {<<"paragraph_insert", LocationParagraph(i, None), v, "accepted">> :
             i \in {0, 1}, v \in InsertValues}
    \cup {<<"paragraph_insert", LocationParagraph(0, None), PyStr(Text("n")), "proposed">>}

InitInserts == InitWith(LetterDocuments, WorkflowsOf(InsertShapes, MaxInserts))

SpecInserts == InitInserts /\ [][ApplyWorkflow]_vars

\* every input shape accepted, and two records that are not accepted
ApplyShapes ==
    {<<c[1], c[2], c[3], "accepted">> : c \in ApplyInputs}
    \cup {<<"text_update", LocationParagraph(0, None), PyStr(Text("u")), "proposed">>,
          <<"paragraph_delete", LocationParagraph(0, None), None, "rejected">>}

InitApply == InitWith(InitDocuments, WorkflowsOf(ApplyShapes, MaxApplyChanges))

SpecApply == InitApply /\ [][ApplyWorkflow]_vars

----------------------------------------------------------------------------
(* C3, C10 *)

\* the paragraphs that do not stand at a 0-based index of the set, in order
RECURSIVE Without(_, _, _)
Without(paragraphs, indices, k) ==
    IF k > Len(paragraphs) THEN <<>>
    ELSE (IF (k - 1) \in indices THEN <<>> ELSE <<paragraphs[k]>>)
         \o Without(paragraphs, indices, k + 1)

\* the accepted changes are ParagraphDeletes with paragraph locators whose
\* indices are pairwise distinct and in bounds of the document the call started on
OnlyDistinctDeletes ==
    /\ AcceptedAtStart # {}
    /\ \A i \in AcceptedAtStart :
          /\ PreChanges[i].change_type = "paragraph_delete"
          /\ HasParagraphLocator(PreChanges[i])
          /\ 0 <= PreChanges[i].location.paragraph_index
          /\ PreChanges[i].location.paragraph_index < Len(pre.document.paragraphs)
    /\ \A i, j \in AcceptedAtStart :
          i # j => PreChanges[i].location.paragraph_index
                     # PreChanges[j].location.paragraph_index

DeletedIndices == {PreChanges[i].location.paragraph_index : i \in AcceptedAtStart}

\* C3: accepted ParagraphDeletes with pairwise distinct in-bounds indices remove
\* exactly the paragraphs that stood at those indices before the call, keep the
\* others in order, and are all Applied, in whatever order the workflow lists them.
C3_DeleteOrdering ==
    (AfterApply /\ OnlyDistinctDeletes) =>
        /\ document.paragraphs = Without(pre.document.paragraphs, DeletedIndices, 1)
        /\ document.tables = pre.document.tables
        /\ \A i \in AcceptedAtStart : StatusNow(i) = "applied"

\* C3 witness: [A,B,C,D] with deletes listed at 1 and then at 3 became [A,C].
C3_Witness ==
    /\ AfterApply /\ OnlyDistinctDeletes
    /\ Len(pre.document.paragraphs) = 4
    /\ DeletedIndices = {1, 3}
    /\ \E i, j \in AcceptedAtStart :
          i < j /\ PreChanges[i].location.paragraph_index = 1
                /\ PreChanges[j].location.paragraph_index = 3
    /\ document.paragraphs = <<pre.document.paragraphs[1], pre.document.paragraphs[3]>>

\* the only accepted change is the ParagraphInsert at position i, with a paragraph
\* locator 0 <= X <= L and a non-null new value
SoleInsert(i) ==
    /\ AcceptedAtStart = {i}
    /\ PreChanges[i].change_type = "paragraph_insert"
    /\ HasParagraphLocator(PreChanges[i])
    /\ PreChanges[i].new_value # None
    /\ 0 <= PreChanges[i].location.paragraph_index
    /\ PreChanges[i].location.paragraph_index <= Len(pre.document.paragraphs)

\* C10: a sole accepted ParagraphInsert with index X, 0 <= X <= L, and non-null
\* value gives L+1 paragraphs, the new text at index X, the paragraphs below X
\* unchanged, those from X on shifted by one, and the change Applied.
C10_InsertPosition ==
    AfterApply =>
        \A i \in AcceptedAtStart :
            SoleInsert(i) =>
                LET X == PreChanges[i].location.paragraph_index
                    old == pre.document.paragraphs
                    new == document.paragraphs
                IN /\ Len(new) = Len(old) + 1
                   /\ ParagraphText(new[X + 1]) = str(PreChanges[i].new_value)
                   /\ SubSeq(new, 1, X) = SubSeq(old, 1, X)
                   /\ SubSeq(new, X + 2, Len(new)) = SubSeq(old, X + 1, Len(old))
                   /\ StatusNow(i) = "applied"

\* C10 witness: an insert strictly inside a document was applied.
C10_Witness ==
    /\ AfterApply
    /\ \E i \in AcceptedAtStart :
          /\ SoleInsert(i)
          /\ 0 < PreChanges[i].location.paragraph_index
          /\ PreChanges[i].location.paragraph_index < Len(pre.document.paragraphs)
          /\ Len(document.paragraphs) = Len(pre.document.paragraphs) + 1

----------------------------------------------------------------------------
(* sections: documents of styled paragraphs, one accepted SectionReplace *)

MaxSectionParagraphs == 4   \* paragraphs of a drawn document of headings

HeadingCustom == <<"Heading", " ", "X">>   \* a heading style whose name ends in no number

SectionParagraphs ==
    {TextParagraph(Heading1, "A"), TextParagraph(Heading1, "C"),
     TextParagraph(Heading2, "B"), TextParagraph(HeadingCustom, "D"),
     TextParagraph(NormalStyle, "p"),
     Paragraph(NormalStyle, <<Run(<<"A", " ">>, PlainFormat)>>)}

SectionDocuments ==
    UNION {{[paragraphs |-> f, tables |-> <<>>] : f \in [1..n -> SectionParagraphs]} :
              n \in 0..MaxSectionParagraphs}

SectionShapes ==
    {<<"section_replace", LocationSection(Text(h), st), PyList(content), "accepted">> :
        h \in {"A", "B", "D", "Z"},
        st \in {None, PyStr(Heading1), PyStr(Heading2), PyStr(HeadingWord)},
        content \in {<<>>, <<Text("x"), Text("y")>>}}

SectionWorkflows ==
    {[NewWorkflow EXCEPT !.proposed_changes =
          <<[DocumentChange(1, c[1], c[2], c[3]) EXCEPT !.status = c[4]]>>] :
        c \in SectionShapes}

InitSection == InitWith(SectionDocuments, SectionWorkflows)

SpecSection == InitSection /\ [][ApplyWorkflow]_vars

----------------------------------------------------------------------------
(* C6 *)

Least(S) == CHOOSE i \in S : \A j \in S : i <= j

\* 1-based positions of the paragraphs a SectionReplace with a heading style matches
StyledMatches(doc, loc) ==
    {k \in 1..Len(doc.paragraphs) :
        /\ startswith(doc.paragraphs[k].style, loc.heading_style_name.v)
        /\ contains(ParagraphText(doc.paragraphs[k]), loc.heading_text)}

\* the one accepted change is a SectionReplace with a heading style whose heading
\* is found, the heading having a level
StyledSectionReplace ==
    /\ AcceptedAtStart = {1}
    /\ PreChanges[1].change_type = "section_replace"
    /\ WellFormed(PreChanges[1])
    /\ TruthyStr(PreChanges[1].location.heading_style_name)
    /\ StyledMatches(pre.document, PreChanges[1].location) # {}
    /\ StyleLevel(pre.document.paragraphs[
            Least(StyledMatches(pre.document, PreChanges[1].location))].style) # -1

\* the result the claim describes, the section ending at 1-based position
\* boundary (Len + 1 when no paragraph ends it)
SectionReplaced(boundary) ==
    LET old == pre.document.paragraphs
        new == document.paragraphs
        h == Least(StyledMatches(pre.document, PreChanges[1].location))
        content == PreChanges[1].new_value.v
        k == Len(content)
    IN /\ Len(new) = h + k + (Len(old) - boundary + 1)
       /\ SubSeq(new, 1, h) = SubSeq(old, 1, h)
       /\ \A m \in 1..k : ParagraphText(new[h + m]) = content[m]
       /\ SubSeq(new, h + k + 1, Len(new)) = SubSeq(old, boundary, Len(old))

\* first position after h among the positions of the set, Len + 1 when there is none
BoundaryAmong(S) ==
    LET h == Least(StyledMatches(pre.document, PreChanges[1].location))
        later == {j \in S : j > h}
    IN IF later = {} THEN Len(pre.document.paragraphs) + 1 ELSE Least(later)

\* later headings whose level is at most the matched heading's level
HeadingsOfLevelAtMost ==
    LET h == Least(StyledMatches(pre.document, PreChanges[1].location))
        old == pre.document.paragraphs
    IN {j \in 1..Len(old) :
           /\ IsHeadingStyle(old[j].style)
           /\ StyleLevel(old[j].style) # -1
           /\ StyleLevel(old[j].style) <= StyleLevel(old[h].style)}

\* headings whose style name gives no level
HeadingsWithoutLevel ==
    {j \in 1..Len(pre.document.paragraphs) :
        /\ IsHeadingStyle(pre.document.paragraphs[j].style)
        /\ StyleLevel(pre.document.paragraphs[j].style) = -1}

----------------------------------------------------------------------------
(* formatting: a paragraph of formatted runs, one accepted TextUpdate *)

MaxRuns == 3        \* runs of the drawn paragraph
MaxTextLen == 2     \* tokens of the new text

\* the values python-docx reports for each character attribute, one attribute
\* varied at a time, and the run of the specification's example
FormatSamples ==
    {PlainFormat, [PlainFormat EXCEPT !.bold = "True", !.name = "X", !.size = "12"]}
    \cup {[PlainFormat EXCEPT !.bold = v] : v \in {"True", "False"}}
    \cup {[PlainFormat EXCEPT !.italic = v] : v \in {"True", "False"}}
    \cup {[PlainFormat EXCEPT !.underline = v] : v \in {"True", "False", "DOUBLE"}}
    \cup {[PlainFormat EXCEPT !.name = "X"]}
    \cup {[PlainFormat EXCEPT !.size = "12"]}
    \cup {[PlainFormat EXCEPT !.color_rgb = "FF0000"]}
    \cup {[PlainFormat EXCEPT !.highlight_color = "YELLOW"]}
    \cup {[PlainFormat EXCEPT !.strike = v] : v \in {"True", "False"}}
    \cup {[PlainFormat EXCEPT !.vertAlign = v] : v \in {"subscript", "superscript"}}
    \cup {[PlainFormat EXCEPT !.all_caps = v] : v \in {"True", "False"}}
    \cup {[PlainFormat EXCEPT !.small_caps = v] : v \in {"True", "False"}}
    \cup {[PlainFormat EXCEPT !.style = "Emphasis"]}

OtherRunFormats == {PlainFormat, [PlainFormat EXCEPT !.italic = "True", !.underline = "DOUBLE"]}

RunWords == <<"r1", "r2", "r3", "r4", "r5">>

\* run lists: the first run of any sampled formatting, the others of two
FormattedRuns ==
    {<<>>} \cup
    UNION {{[i \in 1..n |-> Run(Text(RunWords[i]), IF i = 1 THEN first ELSE rest[i])] :
               first \in FormatSamples, rest \in [1..n -> OtherRunFormats]} : n \in 1..MaxRuns}

FormatDocuments ==
    {[paragraphs |-> <<TextParagraph(NormalStyle, "p"), Paragraph(NormalStyle, runs)>>,
      tables |-> <<>>] : runs \in FormattedRuns}

NewTexts == UNION {[1..n -> {"w"}] : n \in 0..MaxTextLen}

TextUpdateShapes ==
    {<<"text_update", LocationParagraph(pi, ri), PyStr(t), "accepted">> :
        pi \in 0..2, ri \in {None} \cup {PyInt(k) : k \in 0..MaxRuns}, t \in NewTexts}

TextUpdateWorkflows ==
    {[NewWorkflow EXCEPT !.proposed_changes =
          <<[DocumentChange(1, c[1], c[2], c[3]) EXCEPT !.status = c[4]]>>] :
        c \in TextUpdateShapes}

InitFormat == InitWith(FormatDocuments, TextUpdateWorkflows)

SpecFormat == InitFormat /\ [][ApplyWorkflow]_vars

----------------------------------------------------------------------------
(* C8, C9 *)

\* the character attributes the claim names, as python-docx reports them
ReportedFormat(f) ==
    [bold |-> f.bold, italic |-> f.italic, underline |-> f.underline,
     strike |-> f.strike, subscript |-> subscript(f), superscript |-> superscript(f),
     all_caps |-> f.all_caps, small_caps |-> f.small_caps, name |-> f.name,
     size |-> f.size, color_rgb |-> f.color_rgb, style |-> f.style]

\* the one accepted change is a TextUpdate on an in-bounds paragraph
SoleTextUpdate ==
    /\ AcceptedAtStart = {1}
    /\ PreChanges[1].change_type = "text_update"
    /\ WellFormed(PreChanges[1])
    /\ 0 <= PreChanges[1].location.paragraph_index
    /\ PreChanges[1].location.paragraph_index < Len(pre.document.paragraphs)

TargetBefore == pre.document.paragraphs[PreChanges[1].location.paragraph_index + 1]
TargetAfter == document.paragraphs[PreChanges[1].location.paragraph_index + 1]

\* C8: after a paragraph-level TextUpdate of an in-bounds paragraph with at least
\* one run, the paragraph has exactly one run, with the new text and with every
\* formatting attribute equal to that of the first original run.
C8_FormattingPreserved ==
    (/\ AfterApply /\ SoleTextUpdate
     /\ PreChanges[1].location.run_index = None
     /\ TargetBefore.runs # <<>>)
    => /\ Len(TargetAfter.runs) = 1
       /\ TargetAfter.runs[1].text = str(PreChanges[1].new_value)
       /\ ReportedFormat(TargetAfter.runs[1].format)
            = ReportedFormat(TargetBefore.runs[1].format)

\* the paragraph-level update always leaves one run with the new text
C8_OneRunWithNewText ==
    (/\ AfterApply /\ SoleTextUpdate
     /\ PreChanges[1].location.run_index = None
     /\ TargetBefore.runs # <<>>)
    => /\ Len(TargetAfter.runs) = 1
       /\ TargetAfter.runs[1].text = str(PreChanges[1].new_value)

\* the one accepted change is a run-level TextUpdate with run_index k on a
\* paragraph of n > k runs
SoleRunUpdate ==
    /\ SoleTextUpdate
    /\ PreChanges[1].location.run_index # None
    /\ 0 <= PreChanges[1].location.run_index.v
    /\ PreChanges[1].location.run_index.v < Len(TargetBefore.runs)

\* C9: a run-level TextUpdate with run_index k on a paragraph of n > k runs changes
\* only the text of run k: the document afterwards is the document before with
\* that one text replaced.
C9_RunUpdateIsolation ==
    (AfterApply /\ SoleRunUpdate) =>
        document = [pre.document EXCEPT
                       !.paragraphs[PreChanges[1].location.paragraph_index + 1]
                         .runs[PreChanges[1].location.run_index.v + 1]
                         .text = str(PreChanges[1].new_value)]

\* C9 witness: run 1 of a 3-run paragraph got a new text, the first run carrying
\* formatting.
C9_Witness ==
    /\ AfterApply /\ SoleRunUpdate
    /\ Len(TargetBefore.runs) = 3
    /\ PreChanges[1].location.run_index.v = 1
    /\ TargetBefore.runs[1].format # PlainFormat
    /\ TargetAfter.runs[2].text # TargetBefore.runs[2].text
    /\ TargetAfter.runs[2].text = str(PreChanges[1].new_value)

----------------------------------------------------------------------------
(* C11, C12: what apply_workflow leaves alone *)

\* C11: if no record is Accepted when apply_workflow is called, the document
\* after the call is the document before it.
C11_NoAcceptedNoChange ==
    (AfterApply /\ AcceptedAtStart = {}) => document = pre.document

\* C11 witness: a call on a non-empty document with a Proposed text update of an
\* existing paragraph, and no Accepted record.
C11_Witness ==
    /\ AfterApply
    /\ AcceptedAtStart = {}
    /\ pre.document.paragraphs # <<>>
    /\ \E i \in 1..Len(PreChanges) :
          /\ PreChanges[i].status = "proposed"
          /\ PreChanges[i].change_type = "text_update"
    /\ document = pre.document

MaxIdChanges == 3   \* records of a drawn workflow whose ids the caller has set

\* DocumentChange(change_id=...): the ids a caller passes, which may repeat
ChangeIds == {1, 2, 3}

IdShapes ==
    {<<"text_update", LocationParagraph(0, None), PyStr(Text("u")), "accepted">>,
     <<"paragraph_delete", LocationParagraph(2, None), None, "accepted">>,
     <<"text_update", LocationParagraph(0, None), PyStr(Text("u")), "proposed">>,
     <<"paragraph_delete", LocationParagraph(0, None), None, "rejected">>}

IdWorkflows ==
    UNION {{[NewWorkflow EXCEPT !.proposed_changes =
                [i \in 1..n |-> [DocumentChange(f[i][2], f[i][1][1], f[i][1][2], f[i][1][3])
                                     EXCEPT !.status = f[i][1][4]]]] :
              f \in [1..n -> IdShapes \X ChangeIds]} : n \in 0..MaxIdChanges}

InitIds == InitWith(InitDocuments, IdWorkflows)

SpecIds == InitIds /\ [][ApplyWorkflow]_vars

DistinctIds ==
    \A i, j \in 1..Len(PreChanges) :
        i # j => PreChanges[i].change_id # PreChanges[j].change_id

\* C12: with pairwise distinct change ids, apply_workflow changes the status only
\* of records that were Accepted at the start, and only to Applied or Failed;
\* every other record keeps its status.
C12_OnlyAcceptedRecordsWritten ==
    (AfterApply /\ DistinctIds) =>
        /\ Len(workflow.proposed_changes) = Len(PreChanges)
        /\ \A i \in 1..Len(PreChanges) :
              IF i \in AcceptedAtStart
              THEN StatusNow(i) \in {"accepted", "applied", "failed"}
              ELSE StatusNow(i) = PreChanges[i].status

\* C12 witness: distinct ids, an Accepted record written and a Proposed record
\* before it in the workflow kept.
C12_Witness ==
    /\ AfterApply
    /\ DistinctIds
    /\ \E i \in AcceptedAtStart, j \in 1..Len(PreChanges) :
          /\ j < i
          /\ StatusNow(i) = "applied"
          /\ PreChanges[j].status = "proposed"
          /\ StatusNow(j) = "proposed"

----------------------------------------------------------------------------
(* C13, C15: the workflow over sequences of add_change, update_change_status *)
(* and apply_workflow calls                                                 *)

Terminal == {"rejected", "applied", "failed"}

AllTerminal ==
    \A i \in 1..Len(workflow.proposed_changes) : StatusNow(i) \in Terminal

\* C13: in every reachable state the workflow status is completed if and only
\* if every change of the workflow has a terminal status.
C13_CompletedIffAllTerminal == (workflow.status = "completed") <=> AllTerminal

\* the same for the workflows that hold a change: completed implies all terminal
C13_CompletedOnlyIfAllTerminal ==
    (workflow.proposed_changes # <<>> /\ workflow.status = "completed") => AllTerminal

\* the same for the workflows that hold a change: all terminal implies completed
C13_AllTerminalOnlyIfCompleted ==
    (workflow.proposed_changes # <<>> /\ AllTerminal) => workflow.status = "completed"

\* C15: no step takes the status of a record from Applied, Failed or Rejected
\* back to Proposed or Accepted.
C15_NoBackwardTransition ==
    [][\A i \in 1..Len(workflow.proposed_changes) :
          workflow.proposed_changes[i].status \in Terminal
              => workflow'.proposed_changes[i].status \notin {"proposed", "accepted"}]_vars

----------------------------------------------------------------------------
(* C14, C16, C17: how an apply_workflow call ends *)

\* the call got past the two sorts, hence to the completion check of line 232
ReachedCompletionCheck == AfterApply /\ result.raised # "AttributeError"

LocatorMismatch(c) ==
    CASE c.change_type \in {"text_update", "paragraph_insert", "paragraph_delete"} ->
            ~HasParagraphLocator(c)
      [] c.change_type = "section_replace" -> c.location.kind # "LocationSection"
      [] c.change_type = "table_cell_update" -> c.location.kind # "LocationTable"
      [] OTHER -> FALSE

\* C16: an accepted change with a mismatched locator is marked Failed, and, when
\* it is the only accepted change, the document is left as it was.
C16_LocatorMismatchFails ==
    AfterApply =>
        \A i \in AcceptedAtStart :
            LocatorMismatch(PreChanges[i]) =>
                /\ StatusNow(i) = "failed"
                /\ AcceptedAtStart = {i} => document = pre.document

\* the part of C16 on SectionReplace and TableCellUpdate, for the calls that the
\* sorts do not abort
C16_SectionAndTableMismatchFail ==
    ReachedCompletionCheck =>
        \A i \in AcceptedAtStart :
            (/\ LocatorMismatch(PreChanges[i])
             /\ PreChanges[i].change_type \in {"section_replace", "table_cell_update"})
                => /\ StatusNow(i) = "failed"
                   /\ AcceptedAtStart = {i} => document = pre.document

\* C17: apply_workflow returns normally: no exception escapes the call.
C17_ReturnsNormally == AfterApply => result.raised = "none"

----------------------------------------------------------------------------
(* the workflow object under a running clock *)

MaxClock == 2   \* ticks of the clock

\* time passes; the clock never goes backward
Tick ==
    /\ clock < MaxClock
    /\ clock' = clock + 1
    /\ UNCHANGED <<document, workflow, result, applied_log, pre, calls,
                   modified_document, detected>>

\* workflow.all_changes_reviewed()
AllChangesReviewed ==
    /\ result' = [op |-> "all_changes_reviewed",
                  ret |-> IF all_changes_reviewed(workflow) THEN "True" ELSE "False",
                  raised |-> "none"]
    /\ pre' = Snapshot(document, workflow)
    /\ applied_log' = <<>>
    /\ UNCHANGED <<document, workflow, calls, clock, modified_document, detected>>

\* ChangeWorkflow(document_id=...): the default factory of created_at reads the
\* clock, then the default factory of updated_at reads it
InitWorkflow ==
    /\ clock \in {0, 1}
    /\ modified_document = EmptyDocument
    /\ detected = <<>>
    /\ document = EmptyDocument
    /\ workflow = [NewWorkflow EXCEPT !.created_at = 0]
    /\ result = NoResult
    /\ applied_log = <<>>
    /\ pre = Snapshot(document, workflow)
    /\ calls = 0

\* the change records added to the workflow; the operations of the workflow
\* object read the id and the status of a record only
WorkflowInputs ==
    {<<"text_update", LocationParagraph(0, None), PyStr(Text("u"))>>,
     <<"paragraph_delete", LocationParagraph(2, None), None>>}

AddWorkflowChange == \E c \in WorkflowInputs : AddChangeOf(c)

NextWorkflow == AddWorkflowChange \/ UpdateChangeStatus \/ AllChangesReviewed \/ Tick

SpecWorkflow == InitWorkflow /\ [][NextWorkflow]_vars

----------------------------------------------------------------------------
(* C18, C19, C20 *)

Statuses(wf) == [i \in 1..Len(wf.proposed_changes) |-> wf.proposed_changes[i].status]

CarriesId(wf, change_id) ==
    \E i \in 1..Len(wf.proposed_changes) : wf.proposed_changes[i].change_id = change_id

\* C18: update_change_status(id, s) with an id no record carries returns false
\* and leaves every status and updated_at unchanged; with an id that is present
\* it returns true, sets the status of the record with that id to s and leaves
\* the status of every other record unchanged, whatever the old status and s.
C18_UpdateChangeStatus ==
    [][\A change_id \in 1..(MaxChanges + 1), s \in ChangeStatus :
          UpdateChangeStatusOf(change_id, s) =>
              IF ~CarriesId(workflow, change_id)
              THEN /\ result'.ret = "False"
                   /\ Statuses(workflow') = Statuses(workflow)
                   /\ workflow'.updated_at = workflow.updated_at
              ELSE /\ result'.ret = "True"
                   /\ Len(workflow'.proposed_changes) = Len(workflow.proposed_changes)
                   /\ \A i \in 1..Len(workflow.proposed_changes) :
                         workflow'.proposed_changes[i].status =
                             IF workflow.proposed_changes[i].change_id = change_id
                             THEN s ELSE workflow.proposed_changes[i].status]_vars

\* C18 witness: a call returned false at a time later than updated_at, on a
\* workflow that holds records.
C18_Witness ==
    /\ result.op = "update_change_status"
    /\ result.ret = "False"
    /\ workflow.proposed_changes # <<>>
    /\ workflow.updated_at < clock

\* C19: all_changes_reviewed() is true if and only if every record is Accepted,
\* Rejected, Applied or Failed, that is if and only if no record is Proposed.
C19_AllChangesReviewed ==
    result.op = "all_changes_reviewed" =>
        /\ (result.ret = "True") <=>
               (\A i \in 1..Len(workflow.proposed_changes) :
                    StatusNow(i) \in {"accepted", "rejected", "applied", "failed"})
        /\ (result.ret = "True") <=>
               ~(\E i \in 1..Len(workflow.proposed_changes) : StatusNow(i) = "proposed")
        /\ workflow.proposed_changes = <<>> => result.ret = "True"

\* C19 witness: true was returned for a workflow whose records are all Accepted.
C19_Witness ==
    /\ result.op = "all_changes_reviewed"
    /\ result.ret = "True"
    /\ workflow.proposed_changes # <<>>
    /\ \A i \in 1..Len(workflow.proposed_changes) : StatusNow(i) = "accepted"

\* C20: updated_at >= created_at in every reachable state; every add_change and
\* every successful update_change_status sets updated_at to the current time;
\* updated_at never decreases.
C20_UpdatedAt ==
    /\ [](workflow.updated_at >= workflow.created_at)
    /\ [][/\ AddWorkflowChange => workflow'.updated_at = clock
          /\ \A change_id \in 1..(MaxChanges + 1), s \in ChangeStatus :
                (UpdateChangeStatusOf(change_id, s) /\ result'.ret = "True")
                    => workflow'.updated_at = clock
          /\ workflow'.updated_at >= workflow.updated_at]_vars

\* C20 witness: add_change has moved updated_at past created_at.
C20_Witness ==
    /\ result.op = "add_change"
    /\ workflow.updated_at = clock
    /\ workflow.updated_at > workflow.created_at

----------------------------------------------------------------------------
(* the frame of the change list *)

\* record a with its status put to that of record b
WithStatusOf(a, b) == [a EXCEPT !.status = b.status]

\* every record of before stands at its position in after, equal in every
\* field but the status
KeepsRecords(before, after) ==
    /\ Len(after.proposed_changes) >= Len(before.proposed_changes)
    /\ \A i \in 1..Len(before.proposed_changes) :
          WithStatusOf(after.proposed_changes[i], before.proposed_changes[i])
              = before.proposed_changes[i]

\* the change records added, and the verdicts set, in the behaviours of SpecFrame
FrameInputs ==
    {<<"text_update", LocationParagraph(0, None), PyStr(Text("u"))>>,
     <<"paragraph_delete", LocationParagraph(2, None), None>>}

InitFrame ==
    /\ clock = 0
    /\ modified_document = EmptyDocument
    /\ detected = <<>>
    /\ document = SampleDocument
    /\ workflow = NewWorkflow
    /\ result = NoResult
    /\ applied_log = <<>>
    /\ pre = Snapshot(document, workflow)
    /\ calls = 0

AddFrameChange == \E c \in FrameInputs : AddChangeOf(c)

\* update_change_status(change_id, ACCEPTED or REJECTED) on a record of the workflow
ReviewChange ==
    \E i \in 1..Len(workflow.proposed_changes), new_status \in {"accepted", "rejected"} :
        UpdateChangeStatusOf(workflow.proposed_changes[i].change_id, new_status)

NextFrame == AddFrameChange \/ ReviewChange \/ ApplyWorkflow

SpecFrame == InitFrame /\ [][NextFrame]_vars

\* C21: no step of add_change, update_change_status or apply_workflow (the
\* status filters are pure and write nothing) removes a record, reorders the
\* records or changes a field of a record other than its status: every
\* record stays at its position, equal up to status, and the list grows by
\* at most the one record add_change appends at the end.
C21_RecordsOnlyAppended ==
    [][/\ KeepsRecords(workflow, workflow')
       /\ Len(workflow'.proposed_changes) <= Len(workflow.proposed_changes) + 1
       /\ Len(workflow'.proposed_changes) > Len(workflow.proposed_changes)
             => result'.op = "add_change"]_vars

\* a list of two records, one of them written by apply_workflow, after a
\* record was added behind it or its status was set
C21_Witness ==
    /\ Len(workflow.proposed_changes) = 2
    /\ calls >= 1
    /\ \E i \in 1..2 : StatusNow(i) \in {"applied", "failed"}
    /\ result.op \in {"add_change", "update_change_status"}

----------------------------------------------------------------------------
(* the detector, and its changes carried through a workflow to the applier *)

MaxDetectParagraphs == 3   \* paragraphs of the original and of the modified document

\* paragraph texts: the empty text and two words
DetectTexts == {<<>>, Text("a"), Text("b")}

\* doc.add_paragraph(text) for each text
TextDocument(texts) == [paragraphs |-> NewParagraphs(texts), tables |-> <<>>]

TextDocuments ==
    {TextDocument(texts) : texts \in UNION {[1..n -> DetectTexts] : n \in 0..MaxDetectParagraphs}}

InitDetect ==
    /\ clock = 0
    /\ document \in TextDocuments
    /\ modified_document \in TextDocuments
    /\ detected = <<>>
    /\ workflow = NewWorkflow
    /\ result = NoResult
    /\ applied_log = <<>>
    /\ pre = Snapshot(document, workflow)
    /\ calls = 0

\* changes = detector.detect_paragraph_text_changes()
DetectParagraphTextChanges ==
    /\ result.op = "init"
    /\ detected' = detect_paragraph_text_changes(document, modified_document)
    /\ result' = [op |-> "detect_paragraph_text_changes", ret |-> "list", raised |-> "none"]
    /\ UNCHANGED <<document, workflow, applied_log, pre, calls, clock, modified_document>>

\* for change in changes: workflow.add_change(change)
AddDetectedChange ==
    /\ result.op \in {"detect_paragraph_text_changes", "add_change"}
    /\ Len(workflow.proposed_changes) < Len(detected)
    /\ \E wf \in {add_change(workflow, detected[Len(workflow.proposed_changes) + 1])} :
          /\ workflow' = wf
          /\ pre' = Snapshot(document, wf)
    /\ result' = [op |-> "add_change", ret |-> "None", raised |-> "none"]
    /\ applied_log' = <<>>
    /\ UNCHANGED <<document, calls, clock, modified_document, detected>>

NoneProposed == \A i \in 1..Len(workflow.proposed_changes) : StatusNow(i) # "proposed"

\* for change in changes: workflow.update_change_status(change.change_id, ACCEPTED)
AcceptDetectedChange ==
    /\ Len(workflow.proposed_changes) = Len(detected)
    /\ calls = 0
    /\ \E i \in 1..Len(workflow.proposed_changes) :
          /\ StatusNow(i) = "proposed"
          /\ \A j \in 1..(i - 1) : StatusNow(j) # "proposed"
          /\ UpdateChangeStatusOf(workflow.proposed_changes[i].change_id, "accepted")

\* applier.apply_workflow(workflow), once every detected change is accepted
ApplyDetected ==
    /\ result.op # "init"
    /\ Len(workflow.proposed_changes) = Len(detected)
    /\ NoneProposed
    /\ ApplyWorkflow

NextDetect ==
    DetectParagraphTextChanges \/ AddDetectedChange \/ AcceptDetectedChange \/ ApplyDetected

SpecDetect == InitDetect /\ [][NextDetect]_vars

----------------------------------------------------------------------------
(* C22, C27 *)

TextsOf(doc) == [i \in 1..Len(doc.paragraphs) |-> ParagraphText(doc.paragraphs[i])]

Smaller(a, b) == IF a < b THEN a ELSE b

\* the 0-based indices below both lengths at which the texts differ
Differing(O, M) == {i \in 0..(Smaller(Len(O), Len(M)) - 1) : O[i + 1] # M[i + 1]}

\* the change detected for paragraph index i carries the type and the values
IsDetected(c, change_type, i, old_value, new_value) ==
    /\ c.change_type = change_type
    /\ c.location = LocationParagraph(i, None)
    /\ c.old_value = old_value
    /\ c.new_value = new_value

\* C22: detect_paragraph_text_changes returns one TextUpdate (old O[i], new
\* M[i]) for each index i below both lengths where the texts differ, in
\* ascending i, then one ParagraphInsert (no old value, new M[i]) for each
\* i in |O|..|M|-1 when M is longer, or one ParagraphDelete (old O[i], no
\* new value) for each i in |M|..|O|-1 when O is longer, and nothing else.
C22_PositionalDetection ==
    result.op = "detect_paragraph_text_changes" =>
        LET O == TextsOf(document)
            M == TextsOf(modified_document)
            common == Smaller(Len(O), Len(M))
            updates == Cardinality(Differing(O, M))
        IN /\ Len(detected) = updates + (Len(O) - common) + (Len(M) - common)
           /\ \A i \in Differing(O, M) :
                 IsDetected(detected[Cardinality({j \in Differing(O, M) : j < i}) + 1],
                            "text_update", i, PyStr(O[i + 1]), PyStr(M[i + 1]))
           /\ \A i \in Len(O)..(Len(M) - 1) :
                 IsDetected(detected[updates + (i - Len(O)) + 1],
                            "paragraph_insert", i, None, PyStr(M[i + 1]))
           /\ \A i \in Len(M)..(Len(O) - 1) :
                 IsDetected(detected[updates + (i - Len(M)) + 1],
                            "paragraph_delete", i, PyStr(O[i + 1]), None)

\* a detection that found a TextUpdate and two tail changes
C22_Witness ==
    /\ result.op = "detect_paragraph_text_changes"
    /\ Len(detected) = 3
    /\ detected[1].change_type = "text_update"
    /\ detected[3].change_type \in {"paragraph_insert", "paragraph_delete"}

\* C27: when every change the detector returned for O and M is added to a
\* workflow, accepted and applied to the document whose texts are O, the
\* document's paragraph texts afterwards are M and every change is Applied.
C27_RoundTrip ==
    (AfterApply /\ calls = 1) =>
        /\ Len(workflow.proposed_changes) = Len(detected)
        /\ TextsOf(document) = TextsOf(modified_document)
        /\ \A i \in 1..Len(workflow.proposed_changes) : StatusNow(i) = "applied"

\* a round trip of a TextUpdate and two deletes
C27_Witness ==
    /\ AfterApply
    /\ calls = 1
    /\ Len(detected) = 3
    /\ detected[1].change_type = "text_update"
    /\ detected[3].change_type = "paragraph_delete"
    /\ TextsOf(pre.document) # TextsOf(modified_document)

----------------------------------------------------------------------------
(* C29 *)

\* the status of the record carrying the id
StatusOfId(wf, change_id) == wf.proposed_changes[get_change_by_id(wf, change_id)].status

\* C29: an apply_workflow call that follows an apply_workflow call on the
\* same workflow and document, with no status change in between, leaves the
\* document and every change status as the first call left them, and works
\* on no record that is Applied or Failed.
C29_SecondPassNoOp ==
    [][(AfterApply /\ calls' = calls + 1) =>
          /\ document' = document
          /\ Statuses(workflow') = Statuses(workflow)
          /\ \A k \in 1..Len(applied_log') :
                StatusOfId(workflow, applied_log'[k]) \notin {"applied", "failed"}]_vars

\* the end of a second call, after a first call that changed the document
\* and marked one record Applied and one Failed
C29_Witness ==
    /\ AfterApply
    /\ calls = 2
    /\ Len(workflow.proposed_changes) = 2
    /\ {StatusNow(1), StatusNow(2)} = {"applied", "failed"}
    /\ document \notin InitDocuments

----------------------------------------------------------------------------
(* C24 *)

\* 1-based positions of the paragraphs the SectionReplace locator matches:
\* by style prefix and contained text when a style is given, else by the
\* stripped text alone
SectionMatches(doc, loc) ==
    IF TruthyStr(loc.heading_style_name) THEN StyledMatches(doc, loc)
    ELSE {k \in 1..Len(doc.paragraphs) :
             strip(ParagraphText(doc.paragraphs[k])) = loc.heading_text}

MatchedHeading == Least(SectionMatches(pre.document, PreChanges[1].location))

\* the one accepted change is a SectionReplace whose heading is found and
\* that gives no heading style, or whose matched heading has no level
UnlevelledSectionReplace ==
    /\ AcceptedAtStart = {1}
    /\ PreChanges[1].change_type = "section_replace"
    /\ WellFormed(PreChanges[1])
    /\ SectionMatches(pre.document, PreChanges[1].location) # {}
    /\ \/ ~TruthyStr(PreChanges[1].location.heading_style_name)
       \/ StyleLevel(pre.document.paragraphs[MatchedHeading].style) = -1

\* 1-based position of the first paragraph after the matched heading that
\* has a heading style, Len + 1 when there is none
NextHeadingOfAnyLevel ==
    LET old == pre.document.paragraphs
        later == {j \in (MatchedHeading + 1)..Len(old) : IsHeadingStyle(old[j].style)}
    IN IF later = {} THEN Len(old) + 1 ELSE Least(later)

C24_WitnessNoLevel ==
    /\ AfterApply /\ UnlevelledSectionReplace
    /\ TruthyStr(PreChanges[1].location.heading_style_name)
    /\ pre.document.paragraphs[MatchedHeading].style = HeadingCustom
    /\ NextHeadingOfAnyLevel > MatchedHeading + 1
    /\ NextHeadingOfAnyLevel <= Len(pre.document.paragraphs)
    /\ pre.document.paragraphs[NextHeadingOfAnyLevel].style = Heading2

----------------------------------------------------------------------------
(* one pass over deletes, inserts, text updates and a table cell update *)

MaxMixedChanges == 3   \* records of a drawn workflow

\* n paragraphs of pairwise different text and the one-row table of the sample
MixedDocument(n) == [LetterDocument(n) EXCEPT !.tables = SampleDocument.tables]

MixedDocuments == {MixedDocument(n) : n \in 0..MaxParagraphs}

MixedShapes ==
    {<<"paragraph_delete", LocationParagraph(2, None), None, "accepted">>,
     <<"paragraph_delete", LocationParagraph(0, None), None, "accepted">>,
     <<"paragraph_insert", LocationParagraph(0, None), PyStr(Text("n")), "accepted">>,
     <<"paragraph_insert", LocationParagraph(1, None), PyStr(Text("m")), "accepted">>,
     <<"paragraph_insert", LocationParagraph(2, None), PyStr(Text("k")), "accepted">>,
     <<"text_update", LocationParagraph(1, None), PyStr(Text("u")), "accepted">>,
     <<"text_update", LocationParagraph(0, None), PyStr(Text("v")), "accepted">>,
     <<"table_cell_update", LocationTable(0, 0, 0), PyStr(Text("t")), "accepted">>}

InitMixed == InitWith(MixedDocuments, WorkflowsOf(MixedShapes, MaxMixedChanges))

SpecMixed == InitMixed /\ [][ApplyWorkflow]_vars

----------------------------------------------------------------------------
(* C23 *)

\* the accepted change at position i is a paragraph-level TextUpdate and the
\* other accepted changes are deletes, inserts and table cell updates
OneTextUpdateAmongStructural(i) ==
    /\ i \in AcceptedAtStart
    /\ BucketOf(PreChanges[i]) = "text_updates_para"
    /\ \A j \in AcceptedAtStart :
          /\ WellFormed(PreChanges[j])
          /\ j # i => PreChanges[j].change_type
                         \in {"paragraph_delete", "paragraph_insert", "table_cell_update"}

\* the workflow with the record at position i taken out of the pass
WithoutChange(wf, i) == [wf EXCEPT !.proposed_changes[i].status = "rejected"]

\* C23: a paragraph-level TextUpdate with paragraph_index i replaces the
\* text of the paragraph standing at index i once every accepted delete and
\* insert of the pass is applied, and leaves every other paragraph as the
\* deletes and inserts left it; the index is not read against the document
\* as it was before the pass.
C23_IndexAfterStructuralChanges ==
    AfterApply =>
        \A i \in 1..Len(PreChanges) :
            OneTextUpdateAmongStructural(i) =>
                \A standing \in {apply_workflow(pre.document,
                                                WithoutChange(pre.workflow, i)).document.paragraphs} :
                    LET index == PreChanges[i].location.paragraph_index
                    IN /\ Len(document.paragraphs) = Len(standing)
                       /\ \A j \in 1..Len(standing) :
                             IF j = index + 1
                             THEN ParagraphText(document.paragraphs[j])
                                      = PreChanges[i].new_value.v
                             ELSE document.paragraphs[j] = standing[j]

\* delete at 2, insert at 0 and TextUpdate at 1 in one pass: the paragraph
\* that stood at index 0 carries the new text at index 1, the paragraph that
\* stood at index 1 is unchanged at index 2
C23_Witness ==
    /\ AfterApply
    /\ Len(PreChanges) = 3
    /\ \E i \in 1..3 :
          /\ OneTextUpdateAmongStructural(i)
          /\ PreChanges[i].location.paragraph_index = 1
    /\ \E i \in 1..3 : /\ PreChanges[i].change_type = "paragraph_delete"
                        /\ PreChanges[i].location.paragraph_index = 2
    /\ \E i \in 1..3 : /\ PreChanges[i].change_type = "paragraph_insert"
                        /\ PreChanges[i].location.paragraph_index = 0
    /\ Len(pre.document.paragraphs) >= 3
    /\ ParagraphText(document.paragraphs[2]) = Text("u")
    /\ document.paragraphs[3] = pre.document.paragraphs[2]
    /\ \A j \in 1..Len(document.paragraphs) :
          document.paragraphs[j] # pre.document.paragraphs[1]

----------------------------------------------------------------------------
(* C28 *)

InsertsAtStart == {i \in AcceptedAtStart : PreChanges[i].change_type = "paragraph_insert"}

\* the accepted changes are deletes and inserts only, no two inserts with
\* the same target index
DeletesAndDistinctInserts ==
    /\ \A i \in AcceptedAtStart :
          /\ PreChanges[i].change_type \in {"paragraph_delete", "paragraph_insert"}
          /\ WellFormed(PreChanges[i])
    /\ \A i, j \in InsertsAtStart :
          i # j => PreChanges[i].location.paragraph_index
                      # PreChanges[j].location.paragraph_index

\* C28: when the accepted changes are only ParagraphDeletes and
\* ParagraphInserts and the insert targets are pairwise distinct, the new
\* paragraph of every insert that ends Applied stands at exactly its
\* paragraph_index in the final document.
C28_InsertedParagraphsStandAtIndex ==
    (AfterApply /\ DeletesAndDistinctInserts) =>
        \A i \in InsertsAtStart :
            StatusNow(i) = "applied" =>
                LET index == PreChanges[i].location.paragraph_index
                IN /\ index + 1 \in 1..Len(document.paragraphs)
                   /\ document.paragraphs[index + 1]
                         = NewParagraph(str(PreChanges[i].new_value))

\* a delete and two inserts, the insert at 1 added to the workflow before
\* the insert at 0, all three Applied
C28_Witness ==
    /\ AfterApply /\ DeletesAndDistinctInserts
    /\ Len(PreChanges) = 3
    /\ \A i \in 1..3 : StatusNow(i) = "applied"
    /\ \E i, j \in InsertsAtStart :
          /\ i < j
          /\ PreChanges[i].location.paragraph_index = 1
          /\ PreChanges[j].location.paragraph_index = 0
    /\ \E i \in AcceptedAtStart : PreChanges[i].change_type = "paragraph_delete"

----------------------------------------------------------------------------
(* C30 *)

\* the list with the elements at positions k and k + 1 exchanged
SwapAt(changes, k) ==
    [i \in 1..Len(changes) |->
        IF i = k THEN changes[k + 1] ELSE IF i = k + 1 THEN changes[k] ELSE changes[i]]

\* positions k where the records at k and k + 1 belong to different buckets
CrossBucketNeighbours(changes) ==
    {k \in 1..(Len(changes) - 1) : BucketOf(changes[k]) # BucketOf(changes[k + 1])}

\* C30: the result of apply_workflow does not depend on how changes of
\* different buckets are interleaved in the workflow: exchanging two
\* neighbouring records of different buckets (every reordering that keeps
\* the order within each bucket is a chain of such exchanges, and every
\* workflow of the chain is one of the workflows checked) gives the same
\* final document and the same final status for every change.
C30_InterleavingIndependent ==
    AfterApply =>
        \A k \in CrossBucketNeighbours(PreChanges) :
            \A r \in {apply_workflow(pre.document,
                                      [pre.workflow EXCEPT
                                          !.proposed_changes = SwapAt(@, k)])} :
                /\ r.document = document
                /\ SwapAt(r.workflow.proposed_changes, k) = workflow.proposed_changes
                /\ r.workflow.status = workflow.status

\* a pass over a TextUpdate added before an insert and a delete, which
\* changed the document: the TextUpdate was applied after both
C30_Witness ==
    /\ AfterApply
    /\ Len(PreChanges) = 3
    /\ AcceptedAtStart = {1, 2, 3}
    /\ BucketOf(PreChanges[1]) = "text_updates_para"
    /\ BucketOf(PreChanges[2]) = "paragraph_inserts"
    /\ BucketOf(PreChanges[3]) = "paragraph_deletes"
    /\ \A i \in 1..3 : StatusNow(i) = "applied"
    /\ applied_log = <<3, 2, 1>>

----------------------------------------------------------------------------
(* one pass over changes that target the same location *)

OverwriteShapes ==
    {<<"text_update", LocationParagraph(1, None), PyStr(Text("u")), "accepted">>,
     <<"text_update", LocationParagraph(1, None), PyStr(Text("v")), "accepted">>,
     <<"table_cell_update", LocationTable(0, 0, 0), PyStr(Text("t")), "accepted">>,
     <<"table_cell_update", LocationTable(0, 0, 0), PyStr(Text("w")), "accepted">>,
     <<"section_replace", LocationSection(Text("A"), None), PyList(<<Text("x")>>), "accepted">>,
     <<"section_replace", LocationSection(Text("A"), None),
       PyList(<<Text("y"), Text("z")>>), "accepted">>,
     <<"paragraph_insert", LocationParagraph(0, None), PyStr(Text("n")), "accepted">>,
     <<"paragraph_insert", LocationParagraph(0, None), PyStr(Text("m")), "accepted">>}

InitOverwrite == InitWith(MixedDocuments, WorkflowsOf(OverwriteShapes, MaxMixedChanges))

SpecOverwrite == InitOverwrite /\ [][ApplyWorkflow]_vars

----------------------------------------------------------------------------
(* C26 *)

\* position in the processing order of the record carrying the id
LogPosition(change_id) == CHOOSE p \in 1..Len(applied_log) : applied_log[p] = change_id

Logged(i) == \E p \in 1..Len(applied_log) : applied_log[p] = PreChanges[i].change_id

\* accepted records i, j of one bucket, i added before j, that no sort key
\* tells apart: the text, section and table loops sort nothing, the delete
\* and insert loops sort by paragraph_index and keep the order of equal keys
SameBucketInOrder(i, j) ==
    /\ i \in AcceptedAtStart /\ j \in AcceptedAtStart
    /\ i < j
    /\ BucketOf(PreChanges[i]) # "none"
    /\ BucketOf(PreChanges[i]) = BucketOf(PreChanges[j])
    /\ BucketOf(PreChanges[i]) \in {"paragraph_deletes", "paragraph_inserts"}
          => PreChanges[i].location.paragraph_index
                = PreChanges[j].location.paragraph_index

\* the last accepted record of its bucket with its location
LastAtLocation(j) ==
    /\ j \in AcceptedAtStart
    /\ \E i \in AcceptedAtStart :
          /\ i < j
          /\ BucketOf(PreChanges[i]) = BucketOf(PreChanges[j])
          /\ PreChanges[i].location = PreChanges[j].location
    /\ \A m \in AcceptedAtStart :
          (m > j /\ BucketOf(PreChanges[m]) = BucketOf(PreChanges[j]))
              => PreChanges[m].location # PreChanges[j].location

NoSectionReplaced ==
    \A m \in AcceptedAtStart :
        BucketOf(PreChanges[m]) = "section_replaces" => StatusNow(m) # "applied"

\* the value of the record at position j is the one the document holds at
\* the record's location
ValueLeft(j) ==
    LET c == PreChanges[j]
    IN CASE BucketOf(c) = "text_updates_para" ->
              (NoSectionReplaced /\ c.location.paragraph_index < Len(document.paragraphs))
                  => ParagraphText(document.paragraphs[c.location.paragraph_index + 1])
                        = str(c.new_value)
         [] BucketOf(c) = "table_cell_updates" ->
              StatusNow(j) = "applied"
                  => document.tables[c.location.table_index + 1]
                                    [c.location.row_index + 1]
                                    [c.location.column_index + 1] = str(c.new_value)
         [] BucketOf(c) = "section_replaces" ->
              StatusNow(j) = "applied"
                  => LET h == Least(SectionMatches(document, c.location))
                         k == Len(c.new_value.v)
                     IN /\ h + k <= Len(document.paragraphs)
                        /\ \A m \in 1..k :
                              ParagraphText(document.paragraphs[h + m]) = c.new_value.v[m]
                        /\ h + k < Len(document.paragraphs)
                              => IsHeadingStyle(document.paragraphs[h + k + 1].style)
         [] OTHER -> TRUE

\* C26: within one bucket the accepted changes are applied in the order in
\* which they were added to the workflow (among the deletes and among the
\* inserts, which are sorted by paragraph_index, this is the order of the
\* changes with equal index); of the accepted paragraph-level TextUpdates,
\* TableCellUpdates or SectionReplaces that target one location the one
\* added last is applied last and its value is the one left in the document.
C26_LaterChangeWins ==
    AfterApply =>
        /\ \A i, j \in 1..Len(PreChanges) :
              (SameBucketInOrder(i, j) /\ Logged(i) /\ Logged(j))
                  => LogPosition(PreChanges[i].change_id)
                        < LogPosition(PreChanges[j].change_id)
        /\ \A j \in 1..Len(PreChanges) : LastAtLocation(j) => ValueLeft(j)

\* two TextUpdates of paragraph 1, "v" added before "u": the paragraph reads "u"
C26_Witness ==
    /\ AfterApply
    /\ \E i, j \in AcceptedAtStart :
          /\ i < j
          /\ BucketOf(PreChanges[i]) = "text_updates_para"
          /\ PreChanges[i].location = PreChanges[j].location
          /\ PreChanges[i].new_value = PyStr(Text("v"))
          /\ PreChanges[j].change_type = "text_update"
          /\ PreChanges[j].new_value = PyStr(Text("u"))
          /\ LastAtLocation(j)
          /\ StatusNow(i) = "applied" /\ StatusNow(j) = "applied"
    /\ Len(document.paragraphs) >= 2
    /\ Len(pre.document.paragraphs) >= 2
    /\ ParagraphText(document.paragraphs[2]) = Text("u")
    /\ ParagraphText(pre.document.paragraphs[2]) # Text("u")

\* two SectionReplaces of the section of "A", both Applied: the section
\* holds the content of the one added last
C26_WitnessSection ==
    /\ AfterApply
    /\ \E i, j \in AcceptedAtStart :
          /\ i < j
          /\ BucketOf(PreChanges[i]) = "section_replaces"
          /\ BucketOf(PreChanges[j]) = "section_replaces"
          /\ PreChanges[i].new_value # PreChanges[j].new_value
          /\ LastAtLocation(j)
          /\ StatusNow(i) = "applied" /\ StatusNow(j) = "applied"

\* two TableCellUpdates of one cell, both Applied
C26_WitnessTable ==
    /\ AfterApply
    /\ \E i, j \in AcceptedAtStart :
          /\ i < j
          /\ BucketOf(PreChanges[i]) = "table_cell_updates"
          /\ BucketOf(PreChanges[j]) = "table_cell_updates"
          /\ PreChanges[i].new_value # PreChanges[j].new_value
          /\ LastAtLocation(j)
          /\ StatusNow(i) = "applied" /\ StatusNow(j) = "applied"

----------------------------------------------------------------------------
(* one pass over changes whose indices lie in and out of the document *)

MaxBoundsChanges == 2   \* records of a drawn workflow

BoundsShapes ==
    {<<"paragraph_delete", LocationParagraph(-1, None), None, "accepted">>,
     <<"paragraph_delete", LocationParagraph(1, None), None, "accepted">>,
     <<"paragraph_delete", LocationParagraph(4, None), None, "accepted">>,
     <<"paragraph_insert", LocationParagraph(-1, None), PyStr(Text("n")), "accepted">>,
     <<"paragraph_insert", LocationParagraph(0, None), PyStr(Text("n")), "accepted">>,
     <<"paragraph_insert", LocationParagraph(6, None), PyStr(Text("k")), "accepted">>,
     <<"table_cell_update", LocationTable(0, 0, 0), PyStr(Text("t")), "accepted">>,
     <<"table_cell_update", LocationTable(1, 0, 0), PyStr(Text("t")), "accepted">>,
     <<"table_cell_update", LocationTable(0, 1, 0), PyStr(Text("t")), "accepted">>,
     <<"table_cell_update", LocationTable(0, 0, 2), PyStr(Text("t")), "accepted">>,
     <<"table_cell_update", LocationTable(-1, 0, 0), PyStr(Text("t")), "accepted">>,
     <<"text_update", LocationParagraph(0, None), PyStr(Text("u")), "accepted">>}

InitBounds == InitWith(MixedDocuments, WorkflowsOf(BoundsShapes, MaxBoundsChanges))

SpecBounds == InitBounds /\ [][ApplyWorkflow]_vars

----------------------------------------------------------------------------
(* C25 *)

\* the processing steps before step p in which a change of the type was Applied
AppliedBefore(p, change_type) ==
    {q \in 1..(p - 1) :
        /\ ChangeWithId(applied_log[q]).change_type = change_type
        /\ StatusOfId(workflow, applied_log[q]) = "applied"}

\* the paragraph count when processing step p began: deletes and inserts
\* are the only changes processed before a delete or an insert
ParagraphCountAt(p) ==
    Len(pre.document.paragraphs) - Cardinality(AppliedBefore(p, "paragraph_delete"))
                                 + Cardinality(AppliedBefore(p, "paragraph_insert"))

\* the accepted, well-formed record at position i is a delete, an insert or
\* a table cell update
BoundsChecked(i) ==
    /\ i \in AcceptedAtStart
    /\ PreChanges[i].change_type
          \in {"paragraph_delete", "paragraph_insert", "table_cell_update"}
    /\ WellFormed(PreChanges[i])

\* the index of the processed record at position i was out of bounds when
\* its turn came
OutOfBounds(i) ==
    LET c == PreChanges[i]
        count == ParagraphCountAt(LogPosition(c.change_id))
    IN CASE c.change_type = "paragraph_delete" ->
              c.location.paragraph_index < 0 \/ c.location.paragraph_index >= count
         [] c.change_type = "paragraph_insert" ->
              c.location.paragraph_index < 0 \/ c.location.paragraph_index > count
         [] OTHER ->
              \/ c.location.table_index \notin 0..(Len(pre.document.tables) - 1)
              \/ c.location.row_index
                    \notin 0..(Len(pre.document.tables[c.location.table_index + 1]) - 1)
              \/ c.location.column_index
                    \notin 0..(Len(pre.document.tables[c.location.table_index + 1][1]) - 1)

OutOfBoundsChanges == {i \in 1..Len(PreChanges) : BoundsChecked(i) /\ OutOfBounds(i)}

\* the workflow with the records of the positions taken out of the pass
WithoutChanges(wf, positions) ==
    [wf EXCEPT !.proposed_changes =
        [i \in 1..Len(@) |-> IF i \in positions THEN [@[i] EXCEPT !.status = "rejected"]
                              ELSE @[i]]]

\* C25: in a call that runs its loops, an accepted ParagraphDelete whose
\* index is negative or not below the current paragraph count, an accepted
\* ParagraphInsert whose target is negative or above the current paragraph
\* count and an accepted TableCellUpdate whose table, row or column index is
\* out of bounds are processed and marked Failed, and they change nothing:
\* the document and the status of every other change are those of the pass
\* without them.
C25_OutOfBoundsFails ==
    (AfterApply /\ result.raised # "AttributeError") =>
        /\ \A i \in 1..Len(PreChanges) : BoundsChecked(i) => Logged(i)
        /\ \A i \in OutOfBoundsChanges : StatusNow(i) = "failed"
        /\ \A r \in {apply_workflow(pre.document,
                                     WithoutChanges(pre.workflow, OutOfBoundsChanges))} :
              /\ document = r.document
              /\ \A i \in 1..Len(PreChanges) :
                    i \notin OutOfBoundsChanges
                        => StatusNow(i) = r.workflow.proposed_changes[i].status

\* a delete below index 0 and a TextUpdate in one pass: the delete is
\* Failed, the TextUpdate is Applied and is the only change of the document
C25_Witness ==
    /\ AfterApply
    /\ Len(PreChanges) = 2
    /\ OutOfBoundsChanges = {1}
    /\ PreChanges[1].change_type = "paragraph_delete"
    /\ PreChanges[1].location.paragraph_index < 0
    /\ PreChanges[2].change_type = "text_update"
    /\ StatusNow(1) = "failed" /\ StatusNow(2) = "applied"
    /\ Len(document.paragraphs) = Len(pre.document.paragraphs)
    /\ document # pre.document

\* an insert above the paragraph count and a table cell update outside the
\* table, both Failed, the document as it was
C25_WitnessInsertAndTable ==
    /\ AfterApply
    /\ Len(PreChanges) = 2
    /\ OutOfBoundsChanges = {1, 2}
    /\ {PreChanges[1].change_type, PreChanges[2].change_type}
          = {"paragraph_insert", "table_cell_update"}
    /\ StatusNow(1) = "failed" /\ StatusNow(2) = "failed"
    /\ document = pre.document

\* two deletes of one index: the paragraph count fell to the index before
\* the second delete's turn
C25_WitnessCurrentCount ==
    /\ AfterApply
    /\ Len(PreChanges) = 2
    /\ PreChanges[1] = [PreChanges[2] EXCEPT !.change_id = 1]
    /\ PreChanges[1].change_type = "paragraph_delete"
    /\ PreChanges[1].location.paragraph_index = 1
    /\ Len(pre.document.paragraphs) = 2
    /\ StatusNow(1) = "applied" /\ StatusNow(2) = "failed"
====
